---- MODULE Spec2Model ----
(***************************************************************************)
(* The agent control loop of the product assistant: chat (function_app.py) *)
(* appends the user's message to the session history and runs the graph of *)
(* agent/graph.py (agent node -> tools node -> agent node ... -> END).     *)
(*                                                                         *)
(* Texts are sequences of tokens; the tokens " " and "\n" are whitespace,  *)
(* so that str.strip / str.rstrip are computed, not assumed.               *)
(*                                                                         *)
(* The graph runtime is modelled by what build_graph wires together: the   *)
(* state's message list is a copy of the caller's list to which every node *)
(* result is appended, the tools node answers each tool call of the last   *)
(* assistant message with one tool message carrying the call's id, in call *)
(* order, and a node that raises ends the invocation with that exception.  *)
(* Tool-call arguments are taken to be well-formed JSON objects.           *)
(*                                                                         *)
(* Requests are served by threads of one process that share SESSION_STORE: *)
(* every access of chat to the store (lines 178, 179, 181, 183, 185, 187   *)
(* twice, 196), the test and the del of clear_session (lines 237, 238) and *)
(* each inference call of the agent node is a step of its own, so that     *)
(* another request can run between any two of them. An access to a session *)
(* that was deleted meanwhile raises KeyError and leaves the handler.      *)
(*                                                                         *)
(* Spec is the service: two requests, chat requests running the loop.      *)
(* SpecSessions is the service with three requests and a backend that      *)
(* answers every call directly, for what depends on the session store      *)
(* alone. SpecMeta calls                                                   *)
(* _extract_metadata_from_answer on its own, and SpecTools the product     *)
(* tools of shared/tools.py, each on inputs drawn by its initial state.    *)
(***************************************************************************)
EXTENDS Integers, Sequences, FiniteSets, TLC

\* ------------------------------------------------------------------ bounds
\* Tool rounds the free model stub may request, over all requests.
MaxRounds == 2
\* Tool rounds the always-one-tool stub may request in one loop.
LoopCap == 11
\* The round bound the specification asks for: its example, 10.
LoopBound == LoopCap - 1

\* The session ids, and the requests (each is one HTTP request, chat or
\* clear_session). Spec runs the first two, SpecSessions all three.
Sessions == {"s1", "s2"}
Reqs == {"r1", "r2", "r3"}
TwoReqs == {"r1", "r2"}

\* ------------------------------------------------------------------- texts
Space == {" ", "\n"}

RECURSIVE rstrip(_)
rstrip(t) ==
  IF t = <<>> THEN t
  ELSE IF t[Len(t)] \in Space THEN rstrip(SubSeq(t, 1, Len(t) - 1)) ELSE t

RECURSIVE lstrip(_)
lstrip(t) ==
  IF t = <<>> THEN t
  ELSE IF t[1] \in Space THEN lstrip(Tail(t)) ELSE t

strip(t) == lstrip(rstrip(t))

\* ", ".join(names)
RECURSIVE JoinComma(_)
JoinComma(names) ==
  IF Len(names) = 0 THEN <<>>
  ELSE IF Len(names) = 1 THEN <<names[1]>>
  ELSE <<names[1], ", ">> \o JoinComma(Tail(names))

IsPrefix(s, t) == Len(s) <= Len(t) /\ SubSeq(t, 1, Len(s)) = s

IsSuffix(s, t) == Len(s) <= Len(t) /\ SubSeq(t, Len(t) - Len(s) + 1, Len(t)) = s

InsufficientEvidence == <<"I don't have enough evidence from the loaded data.">>

\* ---------------------------------------------------------------- messages
NoId == <<0, 0>>

HumanMessage(text) ==
  [role |-> "user", content |-> text, tool_calls |-> <<>>,
   function_call |-> FALSE, tool_call_id |-> NoId]

AIMessage(text, calls, fc) ==
  [role |-> "assistant", content |-> text, tool_calls |-> calls,
   function_call |-> fc, tool_call_id |-> NoId]

ToolMessage(text, id) ==
  [role |-> "tool", content |-> text, tool_calls |-> <<>>,
   function_call |-> FALSE, tool_call_id |-> id]

\* The tools the tools node was built with.
ToolCatalog ==
  {"time_tool", "api_info_tool", "api_user_tool", "get_product_data_tool",
   "get_all_products_data_tool", "get_product_kv_pairs_tool"}

\* ------------------------------------------------------- the model backend
\* What one inference call returns: the message's content, the names of its
\* tool calls (in order), and whether it carries a legacy function_call.
Response(text, names, fc) == [content |-> text, tool_calls |-> names, function_call |-> fc]

TextResponses ==
  {Response(d, <<>>, FALSE) : d \in {<<>>, <<" ">>, <<"a">>, <<"a", " ">>}}

OneTool == Response(<<>>, <<"time_tool">>, FALSE)

\* Two calls in one turn, the second of a tool that is not registered with the
\* tools node.
TwoTools == Response(<<"a">>, <<"get_product_kv_pairs_tool", "lookup_tool">>, FALSE)

ToolResponses == {OneTool, TwoTools}

\* A response in the legacy protocol: a function_call and no tool_calls.
LegacyResponses == {Response(<<>>, <<>>, TRUE)}

\* A direct answer with an empty content: no tool is called and the verifier
\* is not run.
DirectResponses == {Response(<<>>, <<>>, FALSE)}

\* The verifier's inference call: not made, raises, or returns a content.
NotCalled == [kind |-> "not_called", content |-> <<>>]

VerifierOutcomes ==
  {[kind |-> "raises", content |-> <<>>],
   [kind |-> "returns", content |-> <<>>],
   [kind |-> "returns",
    content |-> <<" ", "v", "\n", "Confidence:", " ", "0", ".", "8", "5", "\n",
                  "Evidence:", " ", "E1", ",", " ", "E2", "\n">>]}

\* The stripped text of a chat request: a product question, and texts that
\* hold keywords of the malicious-input list.
UserTexts == {<<"width of 6205?">>, <<"my ", "Password">>, <<"steal", " the ", "token">>}

VARIABLES
  store,          \* SESSION_STORE: session id -> message list (of the ids in present)
  present,        \* the session ids that are keys of SESSION_STORE
  pc,             \* where each request is: idle, then the line of chat it is about to
                  \* run (create 179, append 181, invoke 183, final and last 187,
                  \* extract 196), the node of the graph it is in (agent, verifier,
                  \* tools, end) or the del of clear_session (delete 238), then
                  \* replied, failed, cleared or refused
  sid,            \* the session id of each request
  msgs,           \* the graph state's message list of each request
  input,          \* the message list each request handed to GRAPH.invoke
  modelCalls,     \* inference calls of the loop made by each request's invocation
  verifierCalls,  \* inference calls of the verifier made by each request's invocation
  toolRounds,     \* runs of the tools node in each request's invocation
  lastResp,       \* the response of the request's latest loop inference call
  lastVout,       \* the verifier outcome of the request's latest agent step
  reply,          \* the final_answer of the request's HTTP response
  roundsUsed,     \* tool rounds requested so far by the free stub
  stub,           \* the backend: any response with tool_calls or text ("any"), the
                  \* legacy function_call protocol ("legacy"), always one tool ("loop"),
                  \* always a direct answer ("direct")
  meta,           \* the metadata of the request's HTTP response
  http,           \* how each request left chat: none, ok (HTTP 200), exception
  user_text,      \* chat's local user_text of each request
  final,          \* chat's local final of each request: the message read at line 187
  absent,         \* whether line 178 found the request's session id absent from the
                  \* store (kept until line 183)
  probe,          \* the arguments of a function called on its own
  out             \* what that call returned: <<>> before the call, <<result>> after

vars ==
  <<store, present, pc, sid, msgs, input, modelCalls, verifierCalls, toolRounds,
    lastResp, lastVout, reply, roundsUsed, stub, meta, http, user_text, final,
    absent, probe, out>>

\* No function is called on its own.
NoProbe == [fn |-> "none"]

NoResponse == Response(<<>>, <<>>, FALSE)

\* ------------------------------------------------------------ agent/graph.py
\* Mutant: a response that carries text is taken as final.
needs_tool_TextFirst(messages) ==
  LET last == messages[Len(messages)]
  IN  last.role = "assistant" /\ last.content = <<>>
        /\ (last.tool_calls # <<>> \/ last.function_call)

needs_tool(messages) ==
  LET last == messages[Len(messages)]
  IN  last.role = "assistant" /\ (last.tool_calls # <<>> \/ last.function_call)

\* The index of the latest assistant message carrying tool_calls, 0 when none.
RECURSIVE LastToolTurn(_)
LastToolTurn(messages) ==
  IF messages = <<>> THEN 0
  ELSE LET m == messages[Len(messages)]
       IN  IF m.role = "assistant" /\ m.tool_calls # <<>>
           THEN Len(messages)
           ELSE LastToolTurn(SubSeq(messages, 1, Len(messages) - 1))

CallNames(calls) == [i \in 1..Len(calls) |-> calls[i].name]

tools_used(messages) ==
  LET i == LastToolTurn(messages)
  IN  IF i = 0 THEN <<>> ELSE CallNames(messages[i].tool_calls)

Footer(names) ==
  <<"\n", "\n", "Tools used: ">> \o (IF names = <<>> THEN <<"none">> ELSE JoinComma(names))

\* Mutant: the draft is not stripped before it is tested.
VerifierCalled_NoStrip(draft) == draft # <<>>

VerifierCalled(draft) == strip(draft) # <<>>

\* Mutant: a failed verification gives the insufficient-evidence message.
Verified_NoFallback(draft, v) ==
  IF VerifierCalled(draft)
  THEN IF v.kind = "raises"
       THEN InsufficientEvidence
       ELSE LET verified == strip(v.content)
            IN  IF verified # <<>> THEN verified ELSE InsufficientEvidence
  ELSE InsufficientEvidence

\* The try block of _run_model: the text before the footer.
Verified(draft, v) ==
  IF VerifierCalled(draft)
  THEN IF v.kind = "raises"
       THEN (IF draft # <<>> THEN draft ELSE InsufficientEvidence)
       ELSE LET verified == strip(v.content)
            IN  IF verified # <<>> THEN verified ELSE draft
  ELSE InsufficientEvidence

FinalText(messages, draft, v) ==
  rstrip(Verified(draft, v)) \o Footer(tools_used(messages))

\* The tool_calls of the assistant message built from a response; the backend's
\* call ids are unique: (position of the message, index of the call).
WithIds(names, pos) == [i \in 1..Len(names) |-> [id |-> <<pos, i>>, name |-> names[i]]]

\* The message _run_model returns for a response of the primary inference call.
RunModel(messages, resp, v) ==
  IF resp.tool_calls # <<>>
  THEN AIMessage(resp.content, WithIds(resp.tool_calls, Len(messages) + 1), FALSE)
  ELSE IF resp.function_call
       THEN AIMessage(resp.content, <<>>, TRUE)
       ELSE AIMessage(FinalText(messages, resp.content, v), <<>>, FALSE)

IsFinal(resp) == resp.tool_calls = <<>> /\ ~resp.function_call

\* Mutant: a node's result replaces the state's message list.
add_messages_Replace(messages, new) == new

\* The state's message list after a node returned the messages new.
add_messages(messages, new) == messages \o new

\* The conditional edge after the agent node.
Route(messages) == IF needs_tool(messages) THEN "tools" ELSE "end"

\* One tool's output, as the tools node returns it.
RunTool(name) ==
  IF name \in ToolCatalog
  THEN <<"result of ", name>>
  ELSE <<"Error: ", name, " is not a valid tool">>

\* Mutant: the tools node returns nothing.
ToolResults_None(ai) == <<>>

\* Mutant: the tools node answers the first tool call only.
ToolResults_First(ai) ==
  IF ai.tool_calls = <<>> THEN <<>>
  ELSE <<ToolMessage(RunTool(ai.tool_calls[1].name), ai.tool_calls[1].id)>>

\* Mutant: the tool messages do not carry the call's id.
ToolResults_NoId(ai) ==
  [i \in 1..Len(ai.tool_calls) |-> ToolMessage(RunTool(ai.tool_calls[i].name), NoId)]

\* Mutant: the tool messages come back in completion order, last call first.
ToolResults_Reversed(ai) ==
  [i \in 1..Len(ai.tool_calls) |->
     LET c == ai.tool_calls[Len(ai.tool_calls) + 1 - i]
     IN  ToolMessage(RunTool(c.name), c.id)]

KnownTool(c) == c.name \in ToolCatalog

\* Mutant: a call of an unregistered tool gets no tool message.
ToolResults_KnownOnly(ai) ==
  LET calls == SelectSeq(ai.tool_calls, KnownTool)
  IN  [i \in 1..Len(calls) |-> ToolMessage(RunTool(calls[i].name), calls[i].id)]

\* The tools node: one tool message per tool call of the last message.
ToolResults(ai) ==
  [i \in 1..Len(ai.tool_calls) |->
     ToolMessage(RunTool(ai.tool_calls[i].name), ai.tool_calls[i].id)]

\* --------------------------------------------------------- function_app.py
\* The characters of [0-9]; a digit's value is its index less one.
Digits == <<"0", "1", "2", "3", "4", "5", "6", "7", "8", "9">>

DigitTokens == {Digits[i] : i \in 1..10}

DigitValue(c) == (CHOOSE i \in 1..10 : Digits[i] = c) - 1

\* [0-9.]
NumTokens == DigitTokens \cup {"."}

\* High|Medium|Low, matched with re.IGNORECASE.
LabelTokens == {"High", "Medium", "Low", "high", "medium", "low"}

ConfidenceKeys == {"Confidence:", "confidence:"}

EvidenceKeys == {"Evidence:", "evidence:"}

\* [E0-9,\s]
EvidenceTokens == DigitTokens \cup {"E1", "E2", ","} \cup Space

\* The tokens that hold one of the no_evidence_phrases once lower-cased.
NoEvidenceTokens ==
  {"don't have enough evidence", "not found in evidence", "no evidence",
   "cannot find", "not available in the data", "lack evidence",
   "Not found in evidence", InsufficientEvidence[1]}

\* The longest run of tokens of S in t that starts at position j.
RECURSIVE Run(_, _, _)
Run(t, j, S) ==
  IF j <= Len(t) /\ t[j] \in S THEN <<t[j]>> \o Run(t, j + 1, S) ELSE <<>>

\* group(1) of the leftmost match of Confidence:\s*([0-9.]+|High|Medium|Low)
\* at or after position i; <<>> when there is no match.
RECURSIVE ConfidenceFrom(_, _)
ConfidenceFrom(t, i) ==
  IF i > Len(t) THEN <<>>
  ELSE LET j == i + 1 + Len(Run(t, i + 1, Space))
           num == Run(t, j, NumTokens)
       IN  IF t[i] \in ConfidenceKeys /\ num # <<>> THEN num
           ELSE IF t[i] \in ConfidenceKeys /\ j <= Len(t) /\ t[j] \in LabelTokens
                THEN <<t[j]>>
                ELSE ConfidenceFrom(t, i + 1)

\* Lines 25-28: the matched text, "Unknown" without a match.
confidence(answer) ==
  LET g == ConfidenceFrom(answer, 1) IN IF g = <<>> THEN <<"Unknown">> ELSE g

NotDot(c) == c # "."

\* confidence.replace(".", "").isdigit()
IsNumber(c) ==
  LET d == SelectSeq(c, NotDot)
  IN  d # <<>> /\ \A i \in 1..Len(d) : d[i] \in DigitTokens

\* float(confidence) raises ValueError on a text with more than one point.
FloatRaises(c) == Cardinality({i \in 1..Len(c) : c[i] = "."}) > 1

RECURSIVE DecimalValue(_)
DecimalValue(d) ==
  IF d = <<>> THEN 0
  ELSE 10 * DecimalValue(SubSeq(d, 1, Len(d) - 1)) + DigitValue(d[Len(d)])

RECURSIVE Pow10(_)
Pow10(n) == IF n = 0 THEN 1 ELSE 10 * Pow10(n - 1)

\* float(c) >= p / q, for a text c with at most one point.
FloatAtLeast(c, p, q) ==
  LET d == SelectSeq(c, NotDot)
      dot == {i \in 1..Len(c) : c[i] = "."}
      places == IF dot = {} THEN 0 ELSE Len(c) - (CHOOSE i \in dot : TRUE)
  IN  DecimalValue(d) * q >= p * Pow10(places)

\* Mutant: the High bucket starts at 0.81, above 0.8.
confidence_label_Above(c) ==
  IF IsNumber(c)
  THEN IF FloatAtLeast(c, 81, 100) THEN <<"High">>
       ELSE IF FloatAtLeast(c, 1, 2) THEN <<"Medium">> ELSE <<"Low">>
  ELSE c

\* Lines 30-39, for a text float() accepts.
confidence_label(c) ==
  IF IsNumber(c)
  THEN IF FloatAtLeast(c, 4, 5) THEN <<"High">>
       ELSE IF FloatAtLeast(c, 1, 2) THEN <<"Medium">> ELSE <<"Low">>
  ELSE c

\* str.split(sep) on a text whose separator is a token.
RECURSIVE split(_, _)
split(t, sep) ==
  IF \A i \in 1..Len(t) : t[i] # sep THEN <<t>>
  ELSE LET k == CHOOSE i \in 1..Len(t) : t[i] = sep /\ \A j \in 1..(i - 1) : t[j] # sep
       IN  <<SubSeq(t, 1, k - 1)>> \o split(SubSeq(t, k + 1, Len(t)), sep)

\* group(1) of the leftmost match of Evidence:\s*([E0-9,\s]+) at or after
\* position i; <<>> when there is no match. \s* gives back its last space
\* when nothing of the class follows the spaces.
RECURSIVE EvidenceFrom(_, _)
EvidenceFrom(t, i) ==
  IF i > Len(t) THEN <<>>
  ELSE LET sp == Run(t, i + 1, Space)
           g == Run(t, i + 1 + Len(sp), EvidenceTokens)
       IN  IF t[i] \in EvidenceKeys /\ g # <<>> THEN g
           ELSE IF t[i] \in EvidenceKeys /\ sp # <<>> THEN <<sp[Len(sp)]>>
                ELSE EvidenceFrom(t, i + 1)

NotEmpty(e) == e # <<>>

\* Lines 41-44: the cited ids, each a stripped piece of the group.
evidence(answer) ==
  LET g == EvidenceFrom(answer, 1)
      parts == split(g, ",")
  IN  IF g = <<>> THEN <<>>
      ELSE SelectSeq([i \in 1..Len(parts) |-> strip(parts[i])], NotEmpty)

\* Mutant: the names of every tool-calling turn are collected, oldest first.
RECURSIVE ScanTools_AllTurns(_, _)
ScanTools_AllTurns(messages, seen) ==
  IF messages = <<>> THEN [tools_used |-> <<>>, has_tool_evidence |-> seen]
  ELSE LET m == messages[Len(messages)]
           rest == ScanTools_AllTurns(SubSeq(messages, 1, Len(messages) - 1),
                                      seen \/ m.role = "tool")
       IN  [tools_used |-> rest.tools_used \o CallNames(m.tool_calls),
            has_tool_evidence |-> rest.has_tool_evidence \/ m.tool_calls # <<>>]

\* Lines 46-59: the scan of reversed(messages); seen tells whether a tool
\* message was met before the scan reached this prefix.
RECURSIVE ScanTools(_, _)
ScanTools(messages, seen) ==
  IF messages = <<>> THEN [tools_used |-> <<>>, has_tool_evidence |-> seen]
  ELSE LET m == messages[Len(messages)]
       IN  IF m.role = "assistant" /\ m.tool_calls # <<>>
           THEN [tools_used |-> CallNames(m.tool_calls),
                 has_tool_evidence |-> CallNames(m.tool_calls) # <<>>]
           ELSE ScanTools(SubSeq(messages, 1, Len(messages) - 1), seen \/ m.role = "tool")

\* Line 71.
has_no_evidence(answer) == \E i \in 1..Len(answer) : answer[i] \in NoEvidenceTokens

\* Mutant: the answer is flagged only when it is ungrounded and has a phrase.
hallucination_Both(grounded, phrase) == ~grounded /\ phrase

\* Line 73.
hallucination(grounded, phrase) == ~grounded \/ phrase

\* Mutant: citing evidence is enough to be grounded.
grounded_CitesOnly(has_tool_evidence, ev) == ev # <<>>

\* Line 61.
grounded(has_tool_evidence, ev) == has_tool_evidence /\ ev # <<>>

\* _extract_metadata_from_answer: the returned dict, or the ValueError of float().
ExtractMetadata(answer, messages) ==
  LET c == confidence(answer)
      ev == evidence(answer)
      scan == ScanTools(messages, FALSE)
      g == grounded(scan.has_tool_evidence, ev)
  IN  IF IsNumber(c) /\ FloatRaises(c)
      THEN [raised |-> TRUE, confidence |-> <<>>, grounded |-> FALSE,
            hallucination |-> FALSE, tools_used |-> <<>>, evidence |-> <<>>]
      ELSE [raised |-> FALSE, confidence |-> confidence_label(c), grounded |-> g,
            hallucination |-> hallucination(g, has_no_evidence(answer)),
            tools_used |-> scan.tools_used, evidence |-> ev]

\* No metadata: the request has not been answered.
NoMetadata ==
  [raised |-> FALSE, confidence |-> <<>>, grounded |-> FALSE,
   hallucination |-> FALSE, tools_used |-> <<>>, evidence |-> <<>>]


\* ------------------------------------------------------------ shared/tools.py
\* JSON values. An object's kids are its members in order, keys distinct; an
\* array's kids are its elements, with empty keys; a scalar has its text in v.
Member(key, value) == [key |-> key, value |-> value]

JObject(members) == [t |-> "object", kids |-> members, v |-> <<>>]

JArray(items) ==
  [t |-> "array", kids |-> [i \in 1..Len(items) |-> Member(<<>>, items[i])], v |-> <<>>]

JString(text) == [t |-> "string", kids |-> <<>>, v |-> text]

JNumber(text) == [t |-> "number", kids |-> <<>>, v |-> text]

JBool(b) == [t |-> "bool", kids |-> <<>>, v |-> <<IF b THEN "true" ELSE "false">>]

JNull == [t |-> "null", kids |-> <<>>, v |-> <<>>]

IsContainer(node) == node.t \in {"object", "array"}

HasKey(obj, key) == obj.t = "object" /\ \E i \in 1..Len(obj.kids) : obj.kids[i].key = key

\* dict.get(key): None when the key is absent.
Get(obj, key) ==
  IF HasKey(obj, key)
  THEN obj.kids[CHOOSE i \in 1..Len(obj.kids) : obj.kids[i].key = key].value
  ELSE JNull

\* str.lower() on the letters of the alphabet used here.
LowerToken(c) == IF c = "A" THEN "a" ELSE IF c = "B" THEN "b" ELSE c

Lower(t) == [i \in 1..Len(t) |-> LowerToken(t[i])]

\* str(n) for a natural number n.
RECURSIVE DecimalText(_)
DecimalText(n) ==
  IF n < 10 THEN <<Digits[n + 1]>>
  ELSE DecimalText(n \div 10) \o <<Digits[(n % 10) + 1]>>

\* The path of the i-th kid of a container reached by path; arrays count from 0.
KidPath(path, node, i) ==
  IF node.t = "object"
  THEN (IF path # <<>> THEN path \o <<".">> \o node.kids[i].key ELSE node.kids[i].key)
  ELSE path \o <<"[">> \o DecimalText(i - 1) \o <<"]">>

\* _flatten_kv: the pairs yielded while the deque holds q, each a <<path, node>>.
RECURSIVE FlattenQueue(_)
FlattenQueue(q) ==
  IF q = <<>> THEN <<>>
  ELSE LET path == q[1][1]
           node == q[1][2]
           kid(i) == <<KidPath(path, node, i), node.kids[i].value>>
           IsLeaf(e) == ~IsContainer(e[2])
           IsInner(e) == IsContainer(e[2])
           kids == [i \in 1..Len(node.kids) |-> kid(i)]
       IN  IF IsContainer(node)
           THEN SelectSeq(kids, IsLeaf) \o FlattenQueue(Tail(q) \o SelectSeq(kids, IsInner))
           ELSE <<<<(IF path # <<>> THEN path ELSE <<"$">>), node>>>> \o FlattenQueue(Tail(q))

\* Mutant: depth first, every leaf yielded where a walk of the document meets it.
RECURSIVE FlattenDepthFirst(_, _, _)
FlattenDepthFirst(path, node, i) ==
  IF ~IsContainer(node) THEN <<<<(IF path # <<>> THEN path ELSE <<"$">>), node>>>>
  ELSE IF i > Len(node.kids) THEN <<>>
  ELSE FlattenDepthFirst(KidPath(path, node, i), node.kids[i].value, 1)
         \o FlattenDepthFirst(path, node, i + 1)

flatten_kv_DepthFirst(obj) == FlattenDepthFirst(<<>>, obj, 1)

flatten_kv(obj) == FlattenQueue(<<<<(<<>>), obj>>>>)

DesignationKeys == <<<<"designation">>, <<"title">>, <<"name">>, <<"product_name">>>>

\* The first of the keys, from position k on, whose value is a non-blank
\* string: that string stripped; <<>> (None) when there is none.
RECURSIVE FirstDesignation(_, _)
FirstDesignation(obj, k) ==
  IF k > Len(DesignationKeys) THEN <<>>
  ELSE LET val == Get(obj, DesignationKeys[k])
       IN  IF val.t = "string" /\ strip(val.v) # <<>> THEN strip(val.v)
           ELSE FirstDesignation(obj, k + 1)

designation_of(obj) ==
  LET d == FirstDesignation(obj, 1)
  IN  IF d # <<>> THEN d
      ELSE IF Get(obj, <<"product">>).t = "object"
           THEN FirstDesignation(Get(obj, <<"product">>), 1)
           ELSE <<>>

ErrorPayload(text) == JObject(<<Member(<<"error">>, JString(text))>>)

\* A function that raises instead of returning.
Raised == [t |-> "raised", kids |-> <<>>, v |-> <<>>]

\* get_product_data, for the state of the file at the path.
get_product_data(file) ==
  IF file.state = "ok" THEN file.doc
  ELSE IF file.state = "missing" THEN ErrorPayload(<<"File not found: ", "path">>)
  ELSE IF file.state = "invalid" THEN ErrorPayload(<<"Invalid JSON in ", "path">>)
  ELSE ErrorPayload(<<"Permission denied">>)

\* Lines 141-148: one element per matching file, an error element for a file
\* that cannot be read or parsed.
ReadAll(files) ==
  [i \in 1..Len(files) |->
     IF files[i].state = "ok" THEN files[i].doc
     ELSE ErrorPayload(<<"Failed to read ", "file">>)]

\* Mutant: falling off the candidate list raises.
RECURSIVE get_all_products_data_Raises(_)
get_all_products_data_Raises(dirs) ==
  IF dirs = <<>> THEN Raised
  ELSE IF dirs[1].isdir /\ dirs[1].files # <<>> THEN JArray(ReadAll(dirs[1].files))
  ELSE get_all_products_data_Raises(Tail(dirs))

\* get_all_products_data, for the states of the candidate directories in the
\* order they are tried; files are the files matching the pattern, sorted.
RECURSIVE get_all_products_data(_)
get_all_products_data(dirs) ==
  IF dirs = <<>> THEN ErrorPayload(<<"No JSON files found in any of: ", "tried">>)
  ELSE IF dirs[1].isdir /\ dirs[1].files # <<>> THEN JArray(ReadAll(dirs[1].files))
  ELSE get_all_products_data(Tail(dirs))

Max(a, b) == IF a >= b THEN a ELSE b

Min(a, b) == IF a <= b THEN a ELSE b

\* Mutant: the cap is the limit itself, without the floor of 50.
KvItem_NoFloor(prod, limit) ==
  LET d == designation_of(prod)
      pairs == flatten_kv(prod)
      kept == SubSeq(pairs, 1, Min(Len(pairs), limit))
  IN  JObject(<<
        Member(<<"designation">>, JString(IF d # <<>> THEN d ELSE <<"unknown">>)),
        Member(<<"kv">>,
               JArray([i \in 1..Len(kept) |->
                         JObject(<<Member(<<"path">>, JString(kept[i][1])),
                                   Member(<<"value">>, kept[i][2])>>)])),
        Member(<<"truncated">>, JBool(Len(pairs) >= limit))>>)

\* Lines 186-208: the item of one product.
KvItem(prod, limit) ==
  LET d == designation_of(prod)
      pairs == flatten_kv(prod)
      cap == Max(50, limit)
      kept == SubSeq(pairs, 1, Min(Len(pairs), cap))
  IN  JObject(<<
        Member(<<"designation">>, JString(IF d # <<>> THEN d ELSE <<"unknown">>)),
        Member(<<"kv">>,
               JArray([i \in 1..Len(kept) |->
                         JObject(<<Member(<<"path">>, JString(kept[i][1])),
                                   Member(<<"value">>, kept[i][2])>>)])),
        Member(<<"truncated">>, JBool(Len(pairs) >= cap))>>)

\* get_product_kv_pairs_tool; designation <<>> stands for no filter.
get_product_kv_pairs_tool(designation, dirs, limit) ==
  LET data == get_all_products_data(dirs)
      Kept(e) ==
        /\ e.value.t = "object"
        /\ LET d == designation_of(e.value)
           IN  designation # <<>> /\ d # <<>>
                 => strip(Lower(d)) = strip(Lower(designation))
      prods == SelectSeq(data.kids, Kept)
      items == [i \in 1..Len(prods) |-> KvItem(prods[i].value, limit)]
  IN  IF HasKey(data, <<"error">>) THEN ErrorPayload(Get(data, <<"error">>).v)
      ELSE IF data.t # "array" THEN ErrorPayload(<<"Expected array of products">>)
      ELSE JObject(<<
             Member(<<"items">>, JArray(items)),
             Member(<<"truncated">>,
                    JBool(\E i \in 1..Len(items) : Get(items[i], <<"truncated">>) = JBool(TRUE)))>>)

\* --------------------------------------- agent/graph.py: the history context
\* A tool call as the agent node stores it: id, name, and the arguments, which
\* are a JSON value or a text that json.loads rejects.
ToolCall(id, name, args) == [id |-> id, name |-> name, args |-> args]

InvalidArgs == [t |-> "invalid", kids |-> <<>>, v |-> <<>>]

\* The names of the alphabet whose lower-cased text holds "product" or "kv".
ProductOrKvNames ==
  {"get_product_data_tool", "get_all_products_data_tool", "get_product_kv_pairs_tool",
   "KV_lookup"}

\* bool(value) of a parsed JSON value.
Truthy(val) ==
  IF val.t \in {"object", "array"} THEN val.kids # <<>>
  ELSE IF val.t = "string" THEN val.v # <<>>
  ELSE IF val.t = "number" THEN val.v # <<"0">>
  ELSE IF val.t = "bool" THEN val.v = <<"true">>
  ELSE FALSE

NoContext == [designations |-> <<>>, last_field |-> JNull]

\* Lines 72-86: the calls of one turn from the k-th on, in call order. Arguments
\* that are not a JSON object leave the result as it is (json.loads or the
\* subscript raises inside the try).
RECURSIVE ScanCalls(_, _, _)
ScanCalls(calls, k, acc) ==
  IF k > Len(calls) THEN acc
  ELSE LET c == calls[k]
           d == Get(c.args, <<"designation">>)
           f == Get(c.args, <<"field">>)
       IN  ScanCalls(calls, k + 1,
             [designations |->
                IF c.args.t = "object" /\ c.name \in ProductOrKvNames /\ Truthy(d)
                THEN Append(acc.designations, d) ELSE acc.designations,
              last_field |->
                IF c.args.t = "object" /\ Truthy(f) THEN f ELSE acc.last_field])

\* Mutant: the scan does not stop at the turn that yields a designation.
RECURSIVE ExtractFrom_NoStop(_, _)
ExtractFrom_NoStop(messages, acc) ==
  IF messages = <<>> THEN acc
  ELSE LET m == messages[Len(messages)]
           rest == SubSeq(messages, 1, Len(messages) - 1)
       IN  IF m.role = "assistant" /\ m.tool_calls # <<>>
           THEN ExtractFrom_NoStop(rest, ScanCalls(m.tool_calls, 1, acc))
           ELSE ExtractFrom_NoStop(rest, acc)

\* Lines 68-89: the loop over reversed(messages).
RECURSIVE ExtractFrom(_, _)
ExtractFrom(messages, acc) ==
  IF messages = <<>> THEN acc
  ELSE LET m == messages[Len(messages)]
           rest == SubSeq(messages, 1, Len(messages) - 1)
       IN  IF m.role = "assistant" /\ m.tool_calls # <<>>
           THEN LET scanned == ScanCalls(m.tool_calls, 1, acc)
                IN  IF scanned.designations # <<>> THEN scanned
                    ELSE ExtractFrom(rest, scanned)
           ELSE ExtractFrom(rest, acc)

\* _extract_context_from_history
extract_context(messages) ==
  LET found == ExtractFrom(messages, NoContext)
  IN  [designations |->
         SubSeq(found.designations, 1,
                IF Len(found.designations) < 3 THEN Len(found.designations) ELSE 3),
       last_field |-> found.last_field]

\* ------------------------------------ shared/tools.py: the evidence blocks
\* Characters of tool output kept in a block.
SnippetMax == 600

\* " ".join(texts)
RECURSIVE JoinSpace(_)
JoinSpace(texts) ==
  IF Len(texts) = 0 THEN <<>>
  ELSE IF Len(texts) = 1 THEN texts[1]
  ELSE texts[1] \o <<" ">> \o JoinSpace(Tail(texts))

\* Lines 339-341: the contents of the tool messages that follow one another from
\* position j on.
RECURSIVE Collected(_, _)
Collected(messages, j) ==
  IF j > Len(messages) \/ messages[j].role # "tool" THEN <<>>
  ELSE <<messages[j].content>> \o Collected(messages, j + 1)

\* Lines 343-344: the text of a block; the last token stands for the ellipsis.
Snippet(collected) ==
  LET joined == strip(JoinSpace(collected))
  IN  IF Len(joined) > SnippetMax THEN SubSeq(joined, 1, SnippetMax) \o <<"...">> ELSE joined

\* Line 345: the label of a block.
BlockLabel(calls) ==
  IF JoinComma(CallNames(calls)) # <<>> THEN JoinComma(CallNames(calls)) ELSE <<"tool_call">>

\* Lines 332-349: the loop from position i down, pairs holding the blocks found.
RECURSIVE RecentPairs(_, _, _, _)
RecentPairs(messages, i, pairs, max_pairs) ==
  IF i < 1 \/ Len(pairs) >= max_pairs THEN pairs
  ELSE LET m == messages[i]
           snippet == Snippet(Collected(messages, i + 1))
       IN  RecentPairs(messages, i - 1,
                       IF m.role = "assistant" /\ m.tool_calls # <<>> /\ snippet # <<>>
                       THEN Append(pairs, [label |-> BlockLabel(m.tool_calls), text |-> snippet])
                       ELSE pairs,
                       max_pairs)

Reversed(seq) == [k \in 1..Len(seq) |-> seq[Len(seq) + 1 - k]]

\* Mutant: the blocks are returned as found, newest first.
recent_tool_context_NewestFirst(messages, max_pairs) ==
  RecentPairs(messages, Len(messages), <<>>, max_pairs)

recent_tool_context(messages, max_pairs) ==
  Reversed(RecentPairs(messages, Len(messages), <<>>, max_pairs))

\* --------------------------------------------------------------- the stub
ModelResponses(r) ==
  IF stub = "direct" THEN DirectResponses
  ELSE IF stub = "loop"
  THEN (IF toolRounds[r] < LoopCap THEN {OneTool} ELSE {})
  ELSE TextResponses
         \cup (IF roundsUsed < MaxRounds
               THEN (IF stub = "legacy" THEN LegacyResponses ELSE ToolResponses)
               ELSE {})

\* Mutant: the verifier is called for every response with a non-blank content.
VerifierOutcomesFor_EveryTurn(resp) ==
  IF VerifierCalled(resp.content) THEN VerifierOutcomes ELSE {NotCalled}

VerifierOutcomesFor(resp) ==
  IF IsFinal(resp) /\ VerifierCalled(resp.content) THEN VerifierOutcomes ELSE {NotCalled}

\* ------------------------------------- function_app.py: the safety filter
\* malicious_patterns, in the order of the list.
MaliciousPatterns ==
  <<<<"hack", "unauthorized access attempts">>,
    <<"password", "attempting to access credentials">>,
    <<"credit card", "requesting sensitive financial data">>,
    <<"bank", "banking credential requests">>,
    <<"login", "login credential requests">>,
    <<"bypass", "security bypass attempts">>,
    <<"exploit", "exploitation attempts">>,
    <<"ddos", "denial of service attempts">>,
    <<"steal", "data theft attempts">>,
    <<"token", "authentication token requests">>,
    <<"api key", "API key theft attempts">>,
    <<"credentials", "credential theft attempts">>,
    <<"drop table", "SQL injection attempts">>,
    <<"' or '1'='1", "SQL injection attempts">>,
    <<"rm -rf", "destructive system commands">>,
    <<"delete *", "destructive operations">>>>

\* text.lower(), for the words of the user texts.
LowerWord(w) == IF w = "Password" THEN "password" ELSE w

\* keyword in lower, for a text given by its words.
HoldsKeyword(text, keyword) == \E i \in 1..Len(text) : LowerWord(text[i]) = keyword

\* The first pattern from position k on whose keyword the text holds.
RECURSIVE FirstPattern(_, _)
FirstPattern(text, k) ==
  IF k > Len(MaliciousPatterns) THEN [malicious |-> FALSE, reason |-> ""]
  ELSE IF HoldsKeyword(text, MaliciousPatterns[k][1])
       THEN [malicious |-> TRUE, reason |-> MaliciousPatterns[k][2]]
       ELSE FirstPattern(text, k + 1)

\* _check_malicious_input
check_malicious_input(text) ==
  IF text = <<>> THEN [malicious |-> FALSE, reason |-> ""] ELSE FirstPattern(text, 1)

RefusalMessage ==
  <<"I cannot assist with this request. ",
    "I'm designed to provide product information only and cannot help with ",
    "unauthorized access, hacking, or requests involving sensitive credentials.">>

\* The metadata of the refusal payload.
RefusalMetadata ==
  [raised |-> FALSE, confidence |-> <<"High">>, grounded |-> FALSE,
   hallucination |-> FALSE, tools_used |-> <<"safety_filter">>, evidence |-> <<>>]

\* ------------------------------------------------------------------ actions
\* Requests run in threads of one process, and a thread can be switched out
\* between any two accesses to SESSION_STORE and while it waits for an
\* inference call: every action below holds at most one access to the store
\* or one inference call, with the request's own computation around it.

\* final before line 187, and the None of line 187 for an empty list.
NoMessage ==
  [role |-> "none", content |-> <<>>, tool_calls |-> <<>>,
   function_call |-> FALSE, tool_call_id |-> NoId]

\* The process after start-up: an empty SESSION_STORE, no request received.
NoRequests ==
  /\ store = [s \in Sessions |-> <<>>]
  /\ present = {}
  /\ pc = [r \in Reqs |-> "idle"]
  /\ sid = [r \in Reqs |-> "s1"]
  /\ msgs = [r \in Reqs |-> <<>>]
  /\ input = [r \in Reqs |-> <<>>]
  /\ modelCalls = [r \in Reqs |-> 0]
  /\ verifierCalls = [r \in Reqs |-> 0]
  /\ toolRounds = [r \in Reqs |-> 0]
  /\ lastResp = [r \in Reqs |-> NoResponse]
  /\ lastVout = [r \in Reqs |-> NotCalled]
  /\ reply = [r \in Reqs |-> <<>>]
  /\ roundsUsed = 0
  /\ meta = [r \in Reqs |-> NoMetadata]
  /\ http = [r \in Reqs |-> "none"]
  /\ user_text = [r \in Reqs |-> <<>>]
  /\ final = [r \in Reqs |-> NoMessage]
  /\ absent = [r \in Reqs |-> FALSE]

Init ==
  /\ NoRequests
  /\ stub \in {"any", "legacy", "loop"}
  /\ probe = NoProbe
  /\ out = <<>>

\* Mutant: the filter runs after the user message was stored.
ChatRefuse_Stored(r, s, text) ==
  /\ pc[r] = "idle"
  /\ check_malicious_input(text).malicious
  /\ store' = [store EXCEPT ![s] = (IF s \in present THEN store[s] ELSE <<>>)
                                     \o <<HumanMessage(text)>>]
  /\ present' = present \cup {s}
  /\ pc' = [pc EXCEPT ![r] = "refused"]
  /\ sid' = [sid EXCEPT ![r] = s]
  /\ user_text' = [user_text EXCEPT ![r] = text]
  /\ reply' = [reply EXCEPT ![r] = RefusalMessage]
  /\ meta' = [meta EXCEPT ![r] = RefusalMetadata]
  /\ http' = [http EXCEPT ![r] = "ok"]
  /\ UNCHANGED <<msgs, input, modelCalls, verifierCalls, toolRounds, lastResp,
                 lastVout, roundsUsed, stub, final, absent, probe, out>>

\* chat, lines 135-176: a text the filter matches is answered with the refusal.
ChatRefuse(r, s, text) ==
  /\ pc[r] = "idle"
  /\ check_malicious_input(text).malicious
  /\ pc' = [pc EXCEPT ![r] = "refused"]
  /\ sid' = [sid EXCEPT ![r] = s]
  /\ user_text' = [user_text EXCEPT ![r] = text]
  /\ reply' = [reply EXCEPT ![r] = RefusalMessage]
  /\ meta' = [meta EXCEPT ![r] = RefusalMetadata]
  /\ http' = [http EXCEPT ![r] = "ok"]
  /\ UNCHANGED <<store, present, msgs, input, modelCalls, verifierCalls, toolRounds,
                 lastResp, lastVout, roundsUsed, stub, final, absent, probe, out>>

\* chat, lines 135-140 and 178: a text that passes the filter; the test
\* whether the store holds the session decides between line 179 and line 181.
ChatStart(r, s, text) ==
  /\ pc[r] = "idle"
  /\ ~check_malicious_input(text).malicious
  /\ pc' = [pc EXCEPT ![r] = IF s \in present THEN "append" ELSE "create"]
  /\ sid' = [sid EXCEPT ![r] = s]
  /\ user_text' = [user_text EXCEPT ![r] = text]
  /\ absent' = [absent EXCEPT ![r] = s \notin present]
  /\ UNCHANGED <<store, present, msgs, input, modelCalls, verifierCalls, toolRounds,
                 lastResp, lastVout, reply, roundsUsed, stub, meta, http, final,
                 probe, out>>

\* chat, line 179: the session gets an empty list, whatever the store holds
\* for it by now.
ChatCreate(r) ==
  /\ pc[r] = "create"
  /\ store' = [store EXCEPT ![sid[r]] = <<>>]
  /\ present' = present \cup {sid[r]}
  /\ pc' = [pc EXCEPT ![r] = "append"]
  /\ UNCHANGED <<sid, msgs, input, modelCalls, verifierCalls, toolRounds, lastResp,
                 lastVout, reply, roundsUsed, stub, meta, http, user_text, final,
                 absent, probe, out>>

\* chat, line 181: the user message is appended to the list the store holds;
\* KeyError when the session is not in the store.
ChatAppend(r) ==
  /\ pc[r] = "append"
  /\ IF sid[r] \in present
     THEN /\ store' = [store EXCEPT ![sid[r]] = @ \o <<HumanMessage(user_text[r])>>]
          /\ pc' = [pc EXCEPT ![r] = "invoke"]
          /\ UNCHANGED <<http, absent>>
     ELSE /\ pc' = [pc EXCEPT ![r] = "failed"]
          /\ http' = [http EXCEPT ![r] = "exception"]
          /\ absent' = [absent EXCEPT ![r] = FALSE]
          /\ UNCHANGED store
  /\ UNCHANGED <<present, sid, msgs, input, modelCalls, verifierCalls, toolRounds,
                 lastResp, lastVout, reply, roundsUsed, stub, meta, user_text, final,
                 probe, out>>

\* chat, line 183: the stored list is read and handed to GRAPH.invoke, whose
\* state starts as a copy of it; KeyError when the session is not in the store.
ChatInvoke(r) ==
  /\ pc[r] = "invoke"
  /\ IF sid[r] \in present
     THEN /\ msgs' = [msgs EXCEPT ![r] = store[sid[r]]]
          /\ input' = [input EXCEPT ![r] = store[sid[r]]]
          /\ pc' = [pc EXCEPT ![r] = "agent"]
          /\ UNCHANGED http
     ELSE /\ pc' = [pc EXCEPT ![r] = "failed"]
          /\ http' = [http EXCEPT ![r] = "exception"]
          /\ UNCHANGED <<msgs, input>>
  /\ absent' = [absent EXCEPT ![r] = FALSE]
  /\ UNCHANGED <<store, present, sid, modelCalls, verifierCalls, toolRounds, lastResp,
                 lastVout, reply, roundsUsed, stub, meta, user_text, final, probe, out>>

\* Mutant: the history is persisted after every agent step, not at the end.
AgentStep_Persist(r) ==
  /\ pc[r] = "agent"
  /\ \E resp \in ModelResponses(r) :
       /\ modelCalls' = [modelCalls EXCEPT ![r] = @ + 1]
       /\ lastResp' = [lastResp EXCEPT ![r] = resp]
       /\ roundsUsed' = IF stub # "loop" /\ ~IsFinal(resp) THEN roundsUsed + 1 ELSE roundsUsed
       /\ IF VerifierOutcomesFor(resp) = {NotCalled}
          THEN /\ msgs' = [msgs EXCEPT ![r] =
                             add_messages(@, <<RunModel(msgs[r], resp, NotCalled)>>)]
               /\ pc' = [pc EXCEPT ![r] = Route(msgs'[r])]
          ELSE /\ pc' = [pc EXCEPT ![r] = "verifier"]
               /\ UNCHANGED msgs
  /\ store' = [store EXCEPT ![sid[r]] = msgs'[r]]
  /\ UNCHANGED <<present, sid, input, verifierCalls, toolRounds, lastVout, reply, stub,
                 meta, http, user_text, final, absent, probe, out>>

\* The agent node (_run_model), lines 153-194: the primary inference call
\* returns. A response that asks for tools, or a blank draft, ends the node and
\* the conditional edge follows; for any other draft the node goes on to the
\* verifier's inference call.
AgentStep(r) ==
  /\ pc[r] = "agent"
  /\ \E resp \in ModelResponses(r) :
       /\ modelCalls' = [modelCalls EXCEPT ![r] = @ + 1]
       /\ lastResp' = [lastResp EXCEPT ![r] = resp]
       /\ roundsUsed' = IF stub # "loop" /\ ~IsFinal(resp) THEN roundsUsed + 1 ELSE roundsUsed
       /\ IF VerifierOutcomesFor(resp) = {NotCalled}
          THEN /\ msgs' = [msgs EXCEPT ![r] =
                             add_messages(@, <<RunModel(msgs[r], resp, NotCalled)>>)]
               /\ pc' = [pc EXCEPT ![r] = Route(msgs'[r])]
          ELSE /\ pc' = [pc EXCEPT ![r] = "verifier"]
               /\ UNCHANGED msgs
  /\ UNCHANGED <<store, present, sid, input, verifierCalls, toolRounds, lastVout, reply,
                 stub, meta, http, user_text, final, absent, probe, out>>

\* The agent node, lines 196-222: the verifier's inference call returns or
\* raises, the node returns the final message and the conditional edge follows.
VerifierStep(r) ==
  /\ pc[r] = "verifier"
  /\ \E v \in VerifierOutcomesFor(lastResp[r]) :
       /\ msgs' = [msgs EXCEPT ![r] = add_messages(@, <<RunModel(msgs[r], lastResp[r], v)>>)]
       /\ pc' = [pc EXCEPT ![r] = Route(msgs'[r])]
       /\ verifierCalls' = [verifierCalls EXCEPT ![r] = @ + 1]
       /\ lastVout' = [lastVout EXCEPT ![r] = v]
  /\ UNCHANGED <<store, present, sid, input, modelCalls, toolRounds, lastResp, reply,
                 roundsUsed, stub, meta, http, user_text, final, absent, probe, out>>

\* Mutant: a failed primary inference call is tried again, up to three calls.
AgentFail_Retry(r) ==
  /\ pc[r] = "agent"
  /\ stub = "any"
  /\ modelCalls[r] < 3
  /\ modelCalls' = [modelCalls EXCEPT ![r] = @ + 1]
  /\ UNCHANGED <<store, present, pc, sid, msgs, input, verifierCalls, toolRounds,
                 lastResp, lastVout, reply, roundsUsed, stub, meta, http, user_text,
                 final, absent, probe, out>>

\* Mutant: the messages of the failed loop are stored.
AgentFail_StoresLoop(r) ==
  /\ pc[r] = "agent"
  /\ stub = "any"
  /\ pc' = [pc EXCEPT ![r] = "failed"]
  /\ modelCalls' = [modelCalls EXCEPT ![r] = @ + 1]
  /\ store' = [store EXCEPT ![sid[r]] = msgs[r]]
  /\ msgs' = [msgs EXCEPT ![r] = <<>>]
  /\ input' = [input EXCEPT ![r] = <<>>]
  /\ lastResp' = [lastResp EXCEPT ![r] = NoResponse]
  /\ lastVout' = [lastVout EXCEPT ![r] = NotCalled]
  /\ http' = [http EXCEPT ![r] = "exception"]
  /\ UNCHANGED <<present, sid, verifierCalls, toolRounds, reply, roundsUsed,
                 stub, meta, user_text, final, absent, probe, out>>

\* The primary inference call raises: the exception leaves GRAPH.invoke and chat.
AgentFail(r) ==
  /\ pc[r] = "agent"
  /\ stub = "any"
  /\ pc' = [pc EXCEPT ![r] = "failed"]
  /\ modelCalls' = [modelCalls EXCEPT ![r] = @ + 1]
  /\ msgs' = [msgs EXCEPT ![r] = <<>>]
  /\ input' = [input EXCEPT ![r] = <<>>]
  /\ lastResp' = [lastResp EXCEPT ![r] = NoResponse]
  /\ lastVout' = [lastVout EXCEPT ![r] = NotCalled]
  /\ http' = [http EXCEPT ![r] = "exception"]
  /\ UNCHANGED <<store, present, sid, verifierCalls, toolRounds, reply, roundsUsed,
                 stub, meta, user_text, final, absent, probe, out>>

\* The tools node and the edge back to the agent node.
ToolsStep(r) ==
  /\ pc[r] = "tools"
  /\ msgs' = [msgs EXCEPT ![r] = add_messages(@, ToolResults(msgs[r][Len(msgs[r])]))]
  /\ pc' = [pc EXCEPT ![r] = "agent"]
  /\ toolRounds' = [toolRounds EXCEPT ![r] = @ + 1]
  /\ UNCHANGED <<store, present, sid, input, modelCalls, verifierCalls, lastResp,
                 lastVout, reply, roundsUsed, stub, meta, http, user_text, final,
                 absent, probe, out>>

\* chat, line 185: GRAPH.invoke returned; its message list is assigned to the
\* session, which creates the session when the store does not hold it.
ChatStore(r) ==
  /\ pc[r] = "end"
  /\ store' = [store EXCEPT ![sid[r]] = msgs[r]]
  /\ present' = present \cup {sid[r]}
  /\ pc' = [pc EXCEPT ![r] = "final"]
  /\ msgs' = [msgs EXCEPT ![r] = <<>>]
  /\ input' = [input EXCEPT ![r] = <<>>]
  /\ lastResp' = [lastResp EXCEPT ![r] = NoResponse]
  /\ lastVout' = [lastVout EXCEPT ![r] = NotCalled]
  /\ UNCHANGED <<sid, modelCalls, verifierCalls, toolRounds, reply, roundsUsed, stub,
                 meta, http, user_text, final, absent, probe, out>>

\* The exception of lines 187-196 leaves chat: the request has no response.
ChatRaises(r) ==
  /\ pc' = [pc EXCEPT ![r] = "failed"]
  /\ http' = [http EXCEPT ![r] = "exception"]
  /\ msgs' = [msgs EXCEPT ![r] = <<>>]
  /\ input' = [input EXCEPT ![r] = <<>>]
  /\ lastResp' = [lastResp EXCEPT ![r] = NoResponse]
  /\ lastVout' = [lastVout EXCEPT ![r] = NotCalled]
  /\ final' = [final EXCEPT ![r] = NoMessage]
  /\ UNCHANGED <<reply, meta>>

\* chat, line 187, the condition: the stored list is read and tested; KeyError
\* when the session is not in the store, None for an empty list.
ChatReadFinal(r) ==
  /\ pc[r] = "final"
  /\ IF sid[r] \notin present
     THEN ChatRaises(r)
     ELSE /\ pc' = [pc EXCEPT ![r] = IF store[sid[r]] = <<>> THEN "extract" ELSE "last"]
          /\ UNCHANGED <<msgs, input, lastResp, lastVout, reply, meta, http, final>>
  /\ UNCHANGED <<store, present, sid, modelCalls, verifierCalls, toolRounds, roundsUsed,
                 stub, user_text, absent, probe, out>>

\* chat, line 187, the value: the stored list is read again and its last
\* message taken; KeyError when the session is not in the store, IndexError
\* when the list is empty.
ChatReadLast(r) ==
  /\ pc[r] = "last"
  /\ IF sid[r] \notin present \/ store[sid[r]] = <<>>
     THEN ChatRaises(r)
     ELSE /\ final' = [final EXCEPT ![r] = store[sid[r]][Len(store[sid[r]])]]
          /\ pc' = [pc EXCEPT ![r] = "extract"]
          /\ UNCHANGED <<msgs, input, lastResp, lastVout, reply, meta, http>>
  /\ UNCHANGED <<store, present, sid, modelCalls, verifierCalls, toolRounds, roundsUsed,
                 stub, user_text, absent, probe, out>>

\* chat, lines 189-221: the content of final, the metadata extracted from it
\* and from the list the store holds at line 196, and the HTTP response;
\* KeyError when the session is not in the store, and an exception of the
\* extractor leaves chat as well.
ChatFinish(r) ==
  /\ pc[r] = "extract"
  /\ IF sid[r] \notin present
     THEN ChatRaises(r)
     ELSE LET content == final[r].content
              metadata == ExtractMetadata(content, store[sid[r]])
          IN  IF metadata.raised
              THEN ChatRaises(r)
              ELSE /\ meta' = [meta EXCEPT ![r] = metadata]
                   /\ reply' = [reply EXCEPT ![r] = content]
                   /\ pc' = [pc EXCEPT ![r] = "replied"]
                   /\ http' = [http EXCEPT ![r] = "ok"]
                   /\ msgs' = [msgs EXCEPT ![r] = <<>>]
                   /\ input' = [input EXCEPT ![r] = <<>>]
                   /\ lastResp' = [lastResp EXCEPT ![r] = NoResponse]
                   /\ lastVout' = [lastVout EXCEPT ![r] = NotCalled]
                   /\ final' = [final EXCEPT ![r] = NoMessage]
  /\ UNCHANGED <<store, present, sid, modelCalls, verifierCalls, toolRounds, roundsUsed,
                 stub, user_text, absent, probe, out>>

\* clear_session, lines 235-237 and 244-247: read the session id and test the
\* store for it; answer 404 when the store has no such session.
ClearSession(r, s) ==
  /\ pc[r] = "idle"
  /\ sid' = [sid EXCEPT ![r] = s]
  /\ IF s \in present
     THEN /\ pc' = [pc EXCEPT ![r] = "delete"]
          /\ UNCHANGED http
     ELSE /\ pc' = [pc EXCEPT ![r] = "cleared"]
          /\ http' = [http EXCEPT ![r] = "not_found"]
  /\ UNCHANGED <<store, present, msgs, input, modelCalls, verifierCalls, toolRounds,
                 lastResp, lastVout, reply, roundsUsed, stub, meta, user_text, final,
                 absent, probe, out>>

\* Mutant: the delete empties the whole store, whatever the session id.
ClearDelete_All(r) ==
  /\ pc[r] = "delete"
  /\ pc' = [pc EXCEPT ![r] = "cleared"]
  /\ store' = [x \in Sessions |-> <<>>]
  /\ present' = {}
  /\ http' = [http EXCEPT ![r] = "ok"]
  /\ UNCHANGED <<sid, msgs, input, modelCalls, verifierCalls, toolRounds, lastResp,
                 lastVout, reply, roundsUsed, stub, meta, user_text, final, absent,
                 probe, out>>

\* clear_session, lines 238-242: delete the session and answer 200. The del
\* raises KeyError when another clear_session deleted the session after the
\* test of line 237.
ClearDelete(r) ==
  /\ pc[r] = "delete"
  /\ IF sid[r] \in present
     THEN /\ store' = [store EXCEPT ![sid[r]] = <<>>]
          /\ present' = present \ {sid[r]}
          /\ pc' = [pc EXCEPT ![r] = "cleared"]
          /\ http' = [http EXCEPT ![r] = "ok"]
     ELSE /\ UNCHANGED <<store, present>>
          /\ pc' = [pc EXCEPT ![r] = "failed"]
          /\ http' = [http EXCEPT ![r] = "exception"]
  /\ UNCHANGED <<sid, msgs, input, modelCalls, verifierCalls, toolRounds, lastResp,
                 lastVout, reply, roundsUsed, stub, meta, user_text, final, absent,
                 probe, out>>

Next ==
  \/ \E r \in TwoReqs, s \in Sessions, text \in UserTexts : ChatStart(r, s, text)
  \/ \E r \in TwoReqs, s \in Sessions, text \in UserTexts : ChatRefuse(r, s, text)
  \/ \E r \in TwoReqs : ChatCreate(r)
  \/ \E r \in TwoReqs : ChatAppend(r)
  \/ \E r \in TwoReqs : ChatInvoke(r)
  \/ \E r \in TwoReqs : AgentStep(r)
  \/ \E r \in TwoReqs : VerifierStep(r)
  \/ \E r \in TwoReqs : AgentFail(r)
  \/ \E r \in TwoReqs : ToolsStep(r)
  \/ \E r \in TwoReqs : ChatStore(r)
  \/ \E r \in TwoReqs : ChatReadFinal(r)
  \/ \E r \in TwoReqs : ChatReadLast(r)
  \/ \E r \in TwoReqs : ChatFinish(r)
  \/ \E r \in TwoReqs, s \in Sessions : ClearSession(r, s)
  \/ \E r \in TwoReqs : ClearDelete(r)

Spec == Init /\ [][Next]_vars

\* ------------------------------------------------- three requests, one store
\* The service with three requests and a backend that answers every inference
\* call directly: the agent node runs once per chat and goes to END.
InitSessions ==
  /\ NoRequests
  /\ stub = "direct"
  /\ probe = NoProbe
  /\ out = <<>>

NextSessions ==
  \/ \E r \in Reqs, s \in Sessions, text \in UserTexts : ChatStart(r, s, text)
  \/ \E r \in Reqs, s \in Sessions, text \in UserTexts : ChatRefuse(r, s, text)
  \/ \E r \in Reqs : ChatCreate(r)
  \/ \E r \in Reqs : ChatAppend(r)
  \/ \E r \in Reqs : ChatInvoke(r)
  \/ \E r \in Reqs : AgentStep(r)
  \/ \E r \in Reqs : ChatStore(r)
  \/ \E r \in Reqs : ChatReadFinal(r)
  \/ \E r \in Reqs : ChatReadLast(r)
  \/ \E r \in Reqs : ChatFinish(r)
  \/ \E r \in Reqs, s \in Sessions : ClearSession(r, s)
  \/ \E r \in Reqs : ClearDelete(r)

SpecSessions == InitSessions /\ [][NextSessions]_vars

\* ------------------------------------ _extract_metadata_from_answer on its own
\* The largest Confidence value tried, in hundredths.
MaxHundredths == 100

\* How a value of n hundredths is written: "0.85" for 85.
Hundredths(n) ==
  <<Digits[(n \div 100) + 1], ".", Digits[((n \div 10) % 10) + 1], Digits[(n % 10) + 1]>>

\* What follows "Confidence:" in the answer: nothing (no token), a number, a label.
ConfidenceInputs ==
  {[kind |-> "none", x |-> 0, label |-> ""]}
    \cup {[kind |-> "number", x |-> n, label |-> ""] : n \in 0..MaxHundredths}
    \cup {[kind |-> "label", x |-> 0, label |-> l] : l \in {"High", "Medium", "Low"}}

PhraseInputs == {"", "not found in evidence", "Not found in evidence"}

Question == HumanMessage(<<"width of 6205?">>)

KvTurn == AIMessage(<<>>, WithIds(<<"get_product_kv_pairs_tool">>, 2), FALSE)

TwoCallTurn == AIMessage(<<"a">>, WithIds(<<"get_product_kv_pairs_tool", "time_tool">>, 2), FALSE)

TimeTurn == AIMessage(<<>>, WithIds(<<"time_tool">>, 5), FALSE)

\* Histories before the final answer: no tool turn; one turn calling
\* get_product_kv_pairs_tool once; two tool turns; a tool turn of an earlier
\* request of the session only.
HistoryNoTool == <<Question>>

HistoryKv == <<Question, KvTurn>> \o ToolResults(KvTurn)

HistoryTwoTurns ==
  <<Question, TwoCallTurn>> \o ToolResults(TwoCallTurn) \o <<TimeTurn>> \o ToolResults(TimeTurn)

HistoryEarlier ==
  HistoryKv \o <<AIMessage(<<"a">> \o Footer(tools_used(HistoryKv)), <<>>, FALSE), Question>>

MetaHistories == {HistoryNoTool, HistoryKv, HistoryTwoTurns, HistoryEarlier}

MetaProbes ==
  {[fn |-> "extract_metadata", conf |-> c, cites |-> e, phrase |-> p, history |-> h] :
     c \in ConfidenceInputs, e \in BOOLEAN, p \in PhraseInputs, h \in MetaHistories}

\* The final text _run_model builds for these inputs.
MetaAnswer(p) ==
  (IF p.phrase = "" THEN <<"v">> ELSE <<p.phrase>>)
    \o (IF p.conf.kind = "none" THEN <<>>
        ELSE <<"\n", "Confidence:", " ">>
               \o (IF p.conf.kind = "number" THEN Hundredths(p.conf.x) ELSE <<p.conf.label>>))
    \o (IF p.cites THEN <<"\n", "Evidence:", " ", "E1", ",", " ", "E2">> ELSE <<>>)
    \o Footer(tools_used(p.history))

\* The stored history chat hands to the extractor: it ends with the answer.
MetaMessages(p) == p.history \o <<AIMessage(MetaAnswer(p), <<>>, FALSE)>>

InitMeta ==
  /\ NoRequests
  /\ stub = "any"
  /\ probe \in MetaProbes
  /\ out = <<>>

\* chat, line 196.
ExtractCall ==
  /\ probe.fn = "extract_metadata"
  /\ out = <<>>
  /\ out' = <<ExtractMetadata(MetaAnswer(probe), MetaMessages(probe))>>
  /\ UNCHANGED <<store, present, pc, sid, msgs, input, modelCalls, verifierCalls,
                 toolRounds, lastResp, lastVout, reply, roundsUsed, stub, meta, http,
                 user_text, final, absent, probe>>

NextMeta == ExtractCall

SpecMeta == InitMeta /\ [][NextMeta]_vars

\* ------------------------------- the Confidence pattern on texts of any form
\* Characters and words that follow "Confidence: " in the answers tried.
MaxConfLen == 3

ConfTokens == {"0", "5", "8", ".", "High", "high", "x"}

ConfProbes ==
  {[fn |-> "confidence", conf |-> c] : c \in UNION {[1..n -> ConfTokens] : n \in 0..MaxConfLen}}

\* The final answer _run_model builds on the history of a request that used
\* one tool, when the verifier returns the text and the confidence line: the
\* verified text is stripped before the footer is added.
ConfAnswer(p) ==
  FinalText(HistoryKv, <<"a">>,
            [kind |-> "returns", content |-> <<"v", "\n", "Confidence:", " ">> \o p.conf])

InitConf ==
  /\ NoRequests
  /\ stub = "any"
  /\ probe \in ConfProbes
  /\ out = <<>>

\* chat, line 196, on the history of a request that used one tool.
ExtractConfCall ==
  /\ probe.fn = "confidence"
  /\ out = <<>>
  /\ out' = <<ExtractMetadata(ConfAnswer(probe),
                              HistoryKv \o <<AIMessage(ConfAnswer(probe), <<>>, FALSE)>>)>>
  /\ UNCHANGED <<store, present, pc, sid, msgs, input, modelCalls, verifierCalls,
                 toolRounds, lastResp, lastVout, reply, roundsUsed, stub, meta, http,
                 user_text, final, absent, probe>>

NextConf == ExtractConfCall

SpecConfidence == InitConf /\ [][NextConf]_vars

\* ------------------------------------------------ the product tools on their own
\* Candidate directories tried by get_all_products_data.
MaxCandidates == 3

\* The default of the limit argument.
DefaultLimit == 200

Doc6205 ==
  JObject(<<Member(<<"designation">>, JString(<<"6205">>)),
            Member(<<"dimensions">>, JObject(<<Member(<<"width">>, JNumber(<<"15">>))>>))>>)

DocTitled ==
  JObject(<<Member(<<"title">>, JString(<<" ", "A", "1">>)),
            Member(<<"tags">>, JArray(<<JString(<<"x">>)>>))>>)

DocList == JArray(<<JNumber(<<"1">>)>>)

OkFile(doc) == [state |-> "ok", doc |-> doc]

\* A file that is missing, is not valid JSON, or cannot be read.
BadFile(state) == [state |-> state, doc |-> JNull]

FileStates == {BadFile("missing"), BadFile("invalid"), BadFile("unreadable"), OkFile(Doc6205)}

Dir(isdir, files) == [isdir |-> isdir, files |-> files]

DirStates ==
  {Dir(FALSE, <<>>), Dir(TRUE, <<>>), Dir(TRUE, <<BadFile("invalid")>>),
   Dir(TRUE, <<OkFile(Doc6205)>>), Dir(TRUE, <<OkFile(Doc6205), BadFile("invalid")>>),
   Dir(TRUE, <<OkFile(DocTitled), OkFile(DocList)>>)}

ToolProbes ==
  {[fn |-> "tools", file |-> f, dirs |-> d, designation |-> g] :
     f \in FileStates, d \in [1..MaxCandidates -> DirStates], g \in {<<>>, <<"6205">>}}

InitTools ==
  /\ NoRequests
  /\ stub = "any"
  /\ probe \in ToolProbes
  /\ out = <<>>

Returned(call, result) ==
  /\ probe.fn = "tools"
  /\ out = <<>>
  /\ out' = <<[call |-> call, result |-> result]>>
  /\ UNCHANGED <<store, present, pc, sid, msgs, input, modelCalls, verifierCalls,
                 toolRounds, lastResp, lastVout, reply, roundsUsed, stub, meta, http,
                 user_text, final, absent, probe>>

CallGetProductData == Returned("get_product_data", get_product_data(probe.file))

CallGetAllProductsData == Returned("get_all_products_data", get_all_products_data(probe.dirs))

CallKvPairsTool ==
  Returned("get_product_kv_pairs_tool",
           get_product_kv_pairs_tool(probe.designation, probe.dirs, DefaultLimit))

NextTools ==
  \/ CallGetProductData
  \/ CallGetAllProductsData
  \/ CallKvPairsTool

SpecTools == InitTools /\ [][NextTools]_vars

\* --------------------------------- get_product_kv_pairs_tool on its own
\* Pairs a product has beyond a cap, at most.
MaxOver == 1

\* The floor of the cap.
CapFloor == 50

\* A product with n flattened pairs: its designation and n - 1 numbers.
BigDoc(n) ==
  JObject(<<Member(<<"designation">>, JString(<<"6205">>)),
            Member(<<"values">>, JArray([i \in 1..(n - 1) |-> JNumber(DecimalText(i))]))>>)

\* A product with none of the identifier keys.
DocNameless == JObject(<<Member(<<"width">>, JNumber(<<"15">>))>>)

Limits == {0, 10, CapFloor, CapFloor + 1, DefaultLimit}

PairCounts == {c + e : c \in {CapFloor, CapFloor + 1, DefaultLimit}, e \in (0 - 1)..MaxOver}

KvFiles ==
  {OkFile(Doc6205), OkFile(DocTitled), OkFile(DocNameless), OkFile(DocList), BadFile("invalid")}
    \cup {OkFile(BigDoc(n)) : n \in PairCounts}

Filters == {<<>>, <<"6205">>, <<"a", "1", " ">>, <<"9999">>}

KvProbes ==
  {[fn |-> "kv", files |-> f, designation |-> g, limit |-> l] :
     f \in UNION {[1..n -> KvFiles] : n \in 1..2}, g \in Filters, l \in Limits}

InitKv ==
  /\ NoRequests
  /\ stub = "any"
  /\ probe \in KvProbes
  /\ out = <<>>

\* The tool called on a directory that holds the files.
CallKvTool ==
  /\ probe.fn = "kv"
  /\ out = <<>>
  /\ out' = <<get_product_kv_pairs_tool(probe.designation, <<Dir(TRUE, probe.files)>>,
                                        probe.limit)>>
  /\ UNCHANGED <<store, present, pc, sid, msgs, input, modelCalls, verifierCalls,
                 toolRounds, lastResp, lastVout, reply, roundsUsed, stub, meta, http,
                 user_text, final, absent, probe>>

NextKv == CallKvTool

SpecKv == InitKv /\ [][NextKv]_vars

\* ------------------------------------------------ _flatten_kv on its own
\* Nodes of a document: containers and scalars together.
MaxNodes == 4

Scalars == {JNumber(<<"1">>), JNull}

\* Keys, as their characters: a, b and a.b.
Keys == {<<"a">>, <<"b">>, <<"a", ".", "b">>}

\* The sequences of n distinct keys.
KeyLists(n) == {ks \in [1..n -> Keys] : \A i, j \in 1..n : i # j => ks[i] # ks[j]}

\* The non-empty sequences of documents of m nodes in all, bySize[k] being the
\* documents of k nodes.
RECURSIVE ValueLists(_, _)
ValueLists(bySize, m) ==
  UNION {{<<d>> \o rest : d \in bySize[k],
                          rest \in (IF k = m THEN {<<>>} ELSE ValueLists(bySize, m - k))} :
           k \in 1..m}

\* The containers whose kids are one of the lists.
Containers(lists) ==
  {JArray(l) : l \in lists}
    \cup UNION {{JObject([i \in 1..n |-> Member(ks[i], l[i])]) :
                   l \in {x \in lists : Len(x) = n}, ks \in KeyLists(n)} :
                  n \in 1..Cardinality(Keys)}

\* The documents of 1, 2, ... nodes, up to MaxNodes, from the scalars and the
\* empty object.
RECURSIVE DocsBySize(_)
DocsBySize(bySize) ==
  IF Len(bySize) >= MaxNodes THEN bySize
  ELSE DocsBySize(Append(bySize, Containers(ValueLists(bySize, Len(bySize)))))

Docs ==
  LET bySize == DocsBySize(<<Scalars \cup {JObject(<<>>)}>>)
  IN  UNION {bySize[n] : n \in 1..MaxNodes}

FlattenProbes ==
  {[fn |-> "flatten", doc |-> d] : d \in Docs}

InitFlatten ==
  /\ NoRequests
  /\ stub = "any"
  /\ probe \in FlattenProbes
  /\ out = <<>>

\* list(_flatten_kv(doc))
FlattenCall ==
  /\ probe.fn = "flatten"
  /\ out = <<>>
  /\ out' = <<flatten_kv(probe.doc)>>
  /\ UNCHANGED <<store, present, pc, sid, msgs, input, modelCalls, verifierCalls,
                 toolRounds, lastResp, lastVout, reply, roundsUsed, stub, meta, http,
                 user_text, final, absent, probe>>

NextFlatten == FlattenCall

SpecFlatten == InitFlatten /\ [][NextFlatten]_vars

\* ------------------------------------------- recent_tool_context on its own
\* Turns of the histories tried.
MaxTurns == 4

\* The default of max_pairs, which _run_model passes too.
DefaultMaxPairs == 3

\* A turn of the history: the tools it calls and what they return; a turn
\* without calls is a final answer followed by the next question.
Turn(names, outs) == [names |-> names, outs |-> outs]

LongOutput == [i \in 1..(SnippetMax + 1) |-> "x"]

TurnKinds ==
  {Turn(<<"time_tool">>, <<<<"12:00">>>>),
   Turn(<<"get_product_kv_pairs_tool", "time_tool">>, <<<<"kv">>, <<"12:01">>>>),
   Turn(<<"api_info_tool">>, <<<<>>>>),
   Turn(<<"api_user_tool">>, <<<<" ">>>>),
   Turn(<<"get_all_products_data_tool">>, <<LongOutput>>),
   Turn(<<>>, <<>>)}

RecentProbes ==
  {[fn |-> "recent_tool_context", turns |-> t, max_pairs |-> n] :
     t \in UNION {[1..k -> TurnKinds] : k \in 0..MaxTurns}, n \in 0..DefaultMaxPairs}

\* The history: the question, then each turn's messages.
RECURSIVE RecentMessages(_, _)
RecentMessages(turns, h) ==
  IF turns = <<>> THEN h
  ELSE LET calls == WithIds(turns[1].names, Len(h) + 1)
           new == IF calls = <<>>
                  THEN <<AIMessage(<<"a">> \o Footer(tools_used(h)), <<>>, FALSE), Question>>
                  ELSE <<AIMessage(<<>>, calls, FALSE)>>
                         \o [k \in 1..Len(calls) |-> ToolMessage(turns[1].outs[k], calls[k].id)]
       IN  RecentMessages(SubSeq(turns, 2, Len(turns)), h \o new)

InitRecent ==
  /\ NoRequests
  /\ stub = "any"
  /\ probe \in RecentProbes
  /\ out = <<>>

\* _run_model, line 197, and calls with a smaller max_pairs.
RecentCall ==
  /\ probe.fn = "recent_tool_context"
  /\ out = <<>>
  /\ out' = <<recent_tool_context(RecentMessages(probe.turns, <<Question>>), probe.max_pairs)>>
  /\ UNCHANGED <<store, present, pc, sid, msgs, input, modelCalls, verifierCalls,
                 toolRounds, lastResp, lastVout, reply, roundsUsed, stub, meta, http,
                 user_text, final, absent, probe>>

NextRecent == RecentCall

SpecRecent == InitRecent /\ [][NextRecent]_vars

\* -------------------------------- _extract_context_from_history on its own
\* Tool calls of one assistant turn in the histories tried.
MaxCalls == 2

Args(members) == JObject(members)

\* The kinds of tool call: tool name and arguments.
CallKind(name, args) == [name |-> name, args |-> args]

KvOf6205 ==
  CallKind("get_product_kv_pairs_tool", Args(<<Member(<<"designation">>, JString(<<"6205">>))>>))

KvOf6206Width ==
  CallKind("get_product_kv_pairs_tool",
           Args(<<Member(<<"designation">>, JString(<<"6206">>)),
                  Member(<<"field">>, JString(<<"width">>))>>))

TimeWithField == CallKind("time_tool", Args(<<Member(<<"field">>, JString(<<"height">>))>>))

KvEmpty ==
  CallKind("get_product_kv_pairs_tool",
           Args(<<Member(<<"designation">>, JString(<<>>)), Member(<<"field">>, JString(<<>>))>>))

KvInvalid == CallKind("get_product_kv_pairs_tool", InvalidArgs)

TimeOf6207 == CallKind("time_tool", Args(<<Member(<<"designation">>, JString(<<"6207">>))>>))

CallKinds == {KvOf6205, KvOf6206Width, TimeWithField, KvEmpty, KvInvalid, TimeOf6207}

\* A turn that asks for four products.
FourDesignations ==
  [k \in 1..4 |->
     CallKind("get_product_data_tool",
              Args(<<Member(<<"designation">>, JString(<<"620", Digits[k + 1]>>))>>))]

Turns == UNION {[1..n -> CallKinds] : n \in 1..MaxCalls} \cup {FourDesignations}

\* The tool-calling turns of a history, oldest first.
ContextProbes ==
  {[fn |-> "extract_context", turns |-> t] :
     t \in {<<>>} \cup {<<a>> : a \in Turns} \cup {<<a, b>> : a \in Turns, b \in Turns}}

\* The assistant message of a turn placed at position pos of the history.
TurnMessage(turn, pos) ==
  AIMessage(<<>>, [k \in 1..Len(turn) |-> ToolCall(<<pos, k>>, turn[k].name, turn[k].args)], FALSE)

\* The history: the question, then each turn followed by its tool messages.
RECURSIVE ContextMessages(_, _)
ContextMessages(turns, h) ==
  IF turns = <<>> THEN h
  ELSE LET ai == TurnMessage(turns[1], Len(h) + 1)
       IN  ContextMessages(Tail(turns), h \o <<ai>> \o ToolResults(ai))

InitContext ==
  /\ NoRequests
  /\ stub = "any"
  /\ probe \in ContextProbes
  /\ out = <<>>

\* _inject_ephemeral_contract, the call of _extract_context_from_history.
ExtractContextCall ==
  /\ probe.fn = "extract_context"
  /\ out = <<>>
  /\ out' = <<extract_context(ContextMessages(probe.turns, <<Question>>))>>
  /\ UNCHANGED <<store, present, pc, sid, msgs, input, modelCalls, verifierCalls,
                 toolRounds, lastResp, lastVout, reply, roundsUsed, stub, meta, http,
                 user_text, final, absent, probe>>

NextContext == ExtractContextCall

SpecContext == InitContext /\ [][NextContext]_vars

\* ------------------------------------------------------------------ claims
\* The messages a request's loop has appended so far: positions of msgs[r].
Appended(r) == (Len(input[r]) + 1)..Len(msgs[r])

\* The tool-request turns of a request's loop.
ToolTurns(r) == {i \in Appended(r) : msgs[r][i].tool_calls # <<>>}

InLoop == {"agent", "verifier", "tools"}

\* The loop of the request has ended: chat is at line 185 or after it.
AfterLoop == {"end", "final", "last", "extract", "replied"}

\* C1: after a model call the response alone decides the next step: a response
\* with tool calls (with or without text) goes to tool execution, from which
\* the only way on is the next model call; a text-only response ends the loop
\* (at once, or when its verification has returned), after which the request
\* takes no model turn and runs no tool.
C1_NextStepByResponse ==
  [][\A r \in Reqs :
       /\ (pc[r] = "agent" /\ modelCalls'[r] = modelCalls[r] + 1 /\ pc'[r] # "failed") =>
             /\ lastResp'[r].tool_calls # <<>> => pc'[r] = "tools"
             /\ IsFinal(lastResp'[r]) => pc'[r] \in {"verifier", "end"}
       /\ pc[r] = "verifier" =>
             /\ pc'[r] \in {"verifier", "end"}
             /\ modelCalls'[r] = modelCalls[r]
             /\ toolRounds'[r] = toolRounds[r]
       /\ (pc[r] = "tools" /\ pc'[r] # "tools") =>
             pc'[r] = "agent" /\ toolRounds'[r] = toolRounds[r] + 1
       /\ pc[r] \in AfterLoop =>
             /\ pc'[r] \in AfterLoop \cup {"failed"}
             /\ modelCalls'[r] = modelCalls[r]
             /\ toolRounds'[r] = toolRounds[r]]_vars

C1_Witness ==
  \E r \in Reqs :
    /\ pc[r] = "end"
    /\ \E i \in ToolTurns(r) : msgs[r][i].content # <<>>

SingleToolLoop(r) ==
  \A i \in Appended(r) :
    msgs[r][i].role = "assistant" =>
      ~msgs[r][i].function_call /\ Len(msgs[r][i].tool_calls) <= 1

\* C3: a loop whose k tool-request turns each ask for one tool ends after
\* k + 1 loop model calls with 2k + 1 messages appended (k = 1: 2 calls, 3
\* messages).
C3_CallsAndMessages ==
  \A r \in Reqs :
    (pc[r] = "end" /\ SingleToolLoop(r)) =>
      LET k == Cardinality(ToolTurns(r))
      IN  /\ modelCalls[r] = k + 1
          /\ Len(msgs[r]) = Len(input[r]) + 2 * k + 1

C3_Witness ==
  \E r \in Reqs :
    /\ pc[r] = "end" /\ SingleToolLoop(r)
    /\ Cardinality(ToolTurns(r)) = 1
    /\ modelCalls[r] = 2
    /\ Len(msgs[r]) = Len(input[r]) + 3

\* C4 as claimed: every transition of the loop appends exactly one message.
C4_OneMessagePerTransition ==
  [][\A r \in Reqs :
       (pc[r] \in InLoop /\ pc'[r] \in {"agent", "tools", "end"} /\ pc'[r] # pc[r]) =>
         Len(msgs'[r]) = Len(msgs[r]) + 1]_vars

\* C4 as amended: a model turn appends exactly one message (when the agent
\* node returns, none while it waits for the verifier), and a tool round
\* appends exactly one tool message per tool call of the requesting turn:
\* n for n tool calls, none for a legacy function_call turn.
C4_OnePerTurnOnePerCall ==
  [][\A r \in Reqs :
       /\ (pc[r] \in {"agent", "verifier"} /\ pc'[r] \in {"tools", "end"}) =>
             Len(msgs'[r]) = Len(msgs[r]) + 1
       /\ (pc[r] = "agent" /\ pc'[r] = "verifier") => msgs'[r] = msgs[r]
       /\ (pc[r] = "tools" /\ pc'[r] = "agent") =>
             Len(msgs'[r]) = Len(msgs[r]) + Len(msgs[r][Len(msgs[r])].tool_calls)]_vars

C4_Witness ==
  \E r \in Reqs :
    /\ pc[r] = "agent"
    /\ \E i \in ToolTurns(r) :
         Len(msgs[r][i].tool_calls) = 2 /\ Len(msgs[r]) = i + 2

\* C5: every step of the loop keeps the history it found as a prefix of the
\* history it leaves, and the history returned to chat (and stored by it)
\* starts with the history chat handed in.
C5_AppendOnly ==
  [][\A r \in Reqs :
       /\ (pc[r] \in InLoop /\ pc'[r] \in InLoop \cup {"end"}) =>
             /\ IsPrefix(msgs[r], msgs'[r])
             /\ IsPrefix(input[r], msgs'[r])
             /\ input'[r] = input[r]
       /\ (pc[r] = "end" /\ pc'[r] = "final") =>
             /\ store'[sid[r]] = msgs[r]
             /\ IsPrefix(input[r], store'[sid[r]])]_vars

C5_Witness ==
  \E r \in Reqs :
    /\ pc[r] = "end"
    /\ Len(input[r]) > 1
    /\ Len(msgs[r]) > Len(input[r]) + 1
    /\ IsPrefix(input[r], msgs[r])


\* The tool-request turns of history h before position j.
ToolTurnsBefore(h, j) == {i \in 1..(j - 1) : h[i].role = "assistant" /\ h[i].tool_calls # <<>>}

ToolIdsLinked(h) ==
  \A j \in 1..Len(h) :
    h[j].role = "tool" =>
      /\ ToolTurnsBefore(h, j) # {}
      /\ LET i == CHOOSE x \in ToolTurnsBefore(h, j) : \A y \in ToolTurnsBefore(h, j) : y <= x
         IN  \E k \in 1..Len(h[i].tool_calls) : h[i].tool_calls[k].id = h[j].tool_call_id

\* C6: every tool message carries the id of a tool call of the most recent
\* assistant message before it that carried tool calls.
C6_ToolCallIds ==
  /\ \A r \in Reqs : ToolIdsLinked(msgs[r])
  /\ \A s \in Sessions : ToolIdsLinked(store[s])

C6_Witness ==
  \E r \in Reqs : \E j \in 1..Len(msgs[r]) :
    /\ msgs[r][j].role = "tool"
    /\ Cardinality(ToolTurnsBefore(msgs[r], j)) >= 2

\* Every tool-request turn of h, but a last one still pending, has its results.
RoundsComplete(h, pending) ==
  \A i \in 1..Len(h) :
    LET n == Len(h[i].tool_calls)
    IN  (n > 0 /\ ~(pending /\ i = Len(h))) =>
          /\ Len(h) >= i + n
          /\ \A k \in 1..n :
               h[i + k].role = "tool" /\ h[i + k].tool_call_id = h[i].tool_calls[k].id
          /\ Len(h) > i + n => h[i + n + 1].role # "tool"

\* C7: an assistant turn with n tool calls is followed at once by exactly n
\* tool messages, the k-th answering the k-th call, and by no other tool
\* message; only the turn whose tools are being executed has none yet.
C7_ResultsInRequestOrder ==
  \A r \in Reqs :
    pc[r] \in InLoop \cup {"end"} => RoundsComplete(msgs[r], pc[r] = "tools")

C7_Witness ==
  \E r \in Reqs :
    /\ pc[r] = "end"
    /\ \E i \in ToolTurns(r) : Len(msgs[r][i].tool_calls) = 2

\* The final step of a request's loop: its draft, the history it read, and the
\* answer it appended.
Blank(t) == \A i \in 1..Len(t) : t[i] \in Space
DraftOf(r) == lastResp[r].content
ReadBy(r) == SubSeq(msgs[r], 1, Len(msgs[r]) - 1)
FinalOf(r) == msgs[r][Len(msgs[r])].content

\* C8: a blank draft is not verified and is answered with the insufficient-
\* evidence message and the footer; a non-blank draft is verified.
C8_BlankDraftSkipsVerifier ==
  \A r \in Reqs :
    /\ pc[r] = "verifier" => ~Blank(DraftOf(r))
    /\ pc[r] = "end" =>
          /\ Blank(DraftOf(r)) =>
               /\ verifierCalls[r] = 0
               /\ FinalOf(r) = InsufficientEvidence \o Footer(tools_used(ReadBy(r)))
          /\ ~Blank(DraftOf(r)) => verifierCalls[r] = 1

C8_Witness ==
  \E r \in Reqs :
    /\ pc[r] = "end"
    /\ DraftOf(r) = <<" ">>
    /\ toolRounds[r] >= 1
    /\ verifierCalls[r] = 0

\* The verifier failed or had nothing to say.
VerifierFellBack(r) ==
  /\ ~Blank(DraftOf(r))
  /\ \/ lastVout[r].kind = "raises"
     \/ lastVout[r].kind = "returns" /\ lastVout[r].content = <<>>

\* C9 as claimed: when the verifier call raises or returns empty text for a
\* non-blank draft, the final answer is the draft, unchanged, and the footer.
C9_DraftUnchanged ==
  \A r \in Reqs :
    (pc[r] = "end" /\ VerifierFellBack(r)) =>
      FinalOf(r) = DraftOf(r) \o Footer(tools_used(ReadBy(r)))

\* C9 as amended: a verifier call that raises never fails the request, and
\* when it raises or returns empty text for a non-blank draft the final answer
\* is the draft without its trailing whitespace, and the footer.
C9_DraftRstripped ==
  \A r \in Reqs :
    /\ lastVout[r].kind = "raises" => pc[r] = "end"
    /\ (pc[r] = "end" /\ VerifierFellBack(r)) =>
         FinalOf(r) = rstrip(DraftOf(r)) \o Footer(tools_used(ReadBy(r)))

C9_Witness ==
  \E r \in Reqs :
    /\ pc[r] = "end"
    /\ lastVout[r].kind = "raises"
    /\ DraftOf(r) = <<"a", " ">>
    /\ FinalOf(r) = <<"a">> \o Footer(tools_used(ReadBy(r)))

\* C10: the answer's footer says "none" exactly when the request's own loop
\* called no tool.
C10_FooterOfOwnLoop ==
  \A r \in Reqs :
    pc[r] = "end" =>
      (IsSuffix(Footer(<<>>), FinalOf(r)) <=> ToolTurns(r) = {})

\* The request's own loop called a tool: it ran a tool round, and not for a
\* legacy function_call turn, whose round runs no tool.
CalledTool(r) == toolRounds[r] > 0 /\ stub # "legacy"

\* C11: the response of a request is marked grounded exactly when the
\* request's own loop made a tool turn and the final text cites an evidence id;
\* tool turns of earlier requests of the session do not count.
C11_GroundedByOwnLoop ==
  [][\A r \in Reqs :
       (pc[r] = "extract" /\ pc'[r] = "replied")
         => (meta'[r].grounded <=> (CalledTool(r) /\ meta'[r].evidence # <<>>))]_vars

Extracted == out # <<>> /\ probe.fn = "extract_metadata"

\* C12: hallucination is true exactly when the answer is not grounded or its
\* text holds one of the no-evidence phrases; a text holding "not found in
\* evidence", in any letter case, is flagged whatever it cites and whatever
\* tools were used.
C12_Hallucination ==
  Extracted =>
    /\ out[1].hallucination <=> (~out[1].grounded \/ probe.phrase # "")
    /\ probe.phrase # "" => out[1].hallucination

C12_Witness ==
  /\ Extracted
  /\ probe.phrase = "not found in evidence"
  /\ probe.cites /\ probe.history = HistoryKv
  /\ out[1].grounded /\ out[1].hallucination

\* The tool-calling assistant turns of a history.
ToolTurnsOf(h) == {i \in 1..Len(h) : h[i].role = "assistant" /\ h[i].tool_calls # <<>>}

\* C13: tools_used is the list of tool names of the latest assistant turn of
\* the history that carries tool calls, of that turn only, and is empty when
\* there is none; after a loop whose only tool turn called
\* get_product_kv_pairs_tool once it is that single name.
C13_ToolsOfLatestTurn ==
  Extracted =>
    LET h == MetaMessages(probe)
        T == ToolTurnsOf(h)
    IN  /\ T = {} => out[1].tools_used = <<>>
        /\ T # {} =>
             LET last == CHOOSE i \in T : \A j \in T : j <= i
             IN  out[1].tools_used = CallNames(h[last].tool_calls)
        /\ probe.history = HistoryKv => out[1].tools_used = <<"get_product_kv_pairs_tool">>

C13_Witness ==
  /\ Extracted
  /\ probe.history = HistoryTwoTurns
  /\ out[1].tools_used = <<"time_tool">>

\* C14: a numeric Confidence value X, in hundredths from 0.00 on, gives High
\* for X >= 0.8, Medium for 0.5 <= X < 0.8 and Low for X < 0.5; a value that
\* is one of the labels High, Medium, Low is passed through; an answer
\* without a Confidence token gives Unknown.
C14_ConfidenceBuckets ==
  Extracted =>
    LET c == probe.conf
    IN  /\ c.kind = "number" /\ c.x >= 80 => out[1].confidence = <<"High">>
        /\ c.kind = "number" /\ 50 <= c.x /\ c.x < 80 => out[1].confidence = <<"Medium">>
        /\ c.kind = "number" /\ c.x < 50 => out[1].confidence = <<"Low">>
        /\ c.kind = "label" => out[1].confidence = <<c.label>>
        /\ c.kind = "none" => out[1].confidence = <<"Unknown">>

C14_Witness ==
  /\ Extracted
  /\ probe.conf.kind = "number" /\ probe.conf.x = 80
  /\ out[1].confidence = <<"High">>
  /\ probe.cites /\ out[1].evidence = <<<<"E1">>, <<"E2">>>>

\* A final answer: an assistant message that asks for no tool.
FinalAnswer(m) == m.role = "assistant" /\ m.tool_calls = <<>> /\ ~m.function_call

\* The history is a sequence of whole requests: each starts with its user
\* message and runs, without another user message in between, to its final answer.
WholeRequests(h) ==
  /\ h # <<>> => h[1].role = "user" /\ FinalAnswer(h[Len(h)])
  /\ \A i \in 2..Len(h) : h[i].role = "user" => FinalAnswer(h[i - 1])

\* C15: requests on one session id do not interleave and lose no append: once
\* both requests of a session are answered, its stored history holds the user
\* message and the loop messages of both, each request's messages contiguous.
C15_NoLostAppends ==
  \A s \in Sessions :
    LET on == {r \in Reqs : pc[r] # "idle" /\ sid[r] = s}
    IN  (Cardinality(on) = 2 /\ \A r \in on : pc[r] = "replied")
          => /\ Cardinality({i \in 1..Len(store[s]) : store[s][i].role = "user"}) = 2
             /\ Cardinality({i \in 1..Len(store[s]) : FinalAnswer(store[s][i])}) = 2
             /\ WholeRequests(store[s])

\* Every tool call of h is answered by a later tool message of h with its id.
AllCallsAnswered(h) ==
  \A i \in 1..Len(h) : \A k \in 1..Len(h[i].tool_calls) :
    \E j \in (i + 1)..Len(h) :
      h[j].role = "tool" /\ h[j].tool_call_id = h[i].tool_calls[k].id

\* C16: in every reachable state, also while a tool round is being executed
\* and after a request whose loop failed, no stored history holds an
\* assistant tool-call message with a tool call that has no tool result.
C16_NoPartialRoundStored == \A s \in Sessions : AllCallsAnswered(store[s])

C16_Witness ==
  \E s \in Sessions :
    /\ ToolTurnsOf(store[s]) # {}
    /\ \E r \in Reqs : sid[r] = s /\ pc[r] = "failed" /\ toolRounds[r] >= 1

\* A tool message that reports an error of the tools node.
ErrorResult(m) == m.role = "tool" /\ m.content # <<>> /\ m.content[1] = "Error: "

\* C17: a tool call whose name is not registered does not end the loop: the
\* tools step appends a tool message that carries the error and the call's id,
\* the request goes back to the agent node, and the only way on from there is
\* a further model call.
C17_UnknownToolAnswered ==
  [][\A r \in Reqs :
       /\ (pc[r] = "tools" /\ pc'[r] # "tools") =>
            LET ai == msgs[r][Len(msgs[r])]
            IN  \A k \in 1..Len(ai.tool_calls) :
                  ~KnownTool(ai.tool_calls[k]) =>
                    /\ \E j \in (Len(msgs[r]) + 1)..Len(msgs'[r]) :
                         /\ ErrorResult(msgs'[r][j])
                         /\ msgs'[r][j].tool_call_id = ai.tool_calls[k].id
                    /\ pc'[r] = "agent"
                    /\ http'[r] = "none"
       /\ (pc[r] = "agent" /\ pc'[r] # "agent") => modelCalls'[r] = modelCalls[r] + 1]_vars

C17_Witness ==
  \E r \in Reqs :
    /\ pc[r] = "end"
    /\ modelCalls[r] >= 2
    /\ \E i \in Appended(r) : ErrorResult(msgs[r][i])

ToolReturned == out # <<>> /\ probe.fn = "tools"

IsError(res) == res.t = "object" /\ HasKey(res, <<"error">>)

\* The candidate directories that hold a matching file, and the files of the
\* first of them: the directory a call reads.
Holding(dirs) == {i \in 1..Len(dirs) : dirs[i].isdir /\ dirs[i].files # <<>>}

FilesRead(dirs) == dirs[CHOOSE i \in Holding(dirs) : \A j \in Holding(dirs) : i <= j].files

BadRead(dirs) ==
  IF Holding(dirs) = {} THEN {}
  ELSE {i \in 1..Len(FilesRead(dirs)) : FilesRead(dirs)[i].state # "ok"}

\* C18 as stated: no product tool raises, and each returns a JSON object with
\* an "error" key for a missing or invalid file and when no candidate
\* directory holds a matching file.
C18_ErrorObjectOnFailure ==
  ToolReturned =>
    /\ out[1].result # Raised
    /\ out[1].call = "get_product_data" /\ probe.file.state # "ok" => IsError(out[1].result)
    /\ out[1].call # "get_product_data"
         /\ (Holding(probe.dirs) = {} \/ BadRead(probe.dirs) # {})
         => IsError(out[1].result)

\* C18, amended: no product tool raises. get_product_data returns an error
\* object for a missing, invalid or unreadable file; the two directory tools
\* return one when no candidate directory holds a matching file. A file of the
\* directory read that cannot be parsed is reported inside a normal result:
\* as an error object at the file's place in the array, and by the key-value
\* tool as an item named "unknown" whose first pair has the path "error".
C18_NeverRaises ==
  ToolReturned =>
    LET res == out[1].result
        bad == BadRead(probe.dirs)
    IN  /\ res # Raised
        /\ out[1].call = "get_product_data" /\ probe.file.state # "ok" => IsError(res)
        /\ out[1].call # "get_product_data" /\ Holding(probe.dirs) = {} => IsError(res)
        /\ out[1].call = "get_all_products_data" /\ Holding(probe.dirs) # {} =>
             /\ res.t = "array"
             /\ Len(res.kids) = Len(FilesRead(probe.dirs))
             /\ \A i \in 1..Len(res.kids) : IsError(res.kids[i].value) <=> i \in bad
        /\ out[1].call = "get_product_kv_pairs_tool" /\ Holding(probe.dirs) # {} =>
             /\ ~IsError(res)
             /\ HasKey(res, <<"items">>)
             /\ bad # {} =>
                  \E i \in 1..Len(Get(res, <<"items">>).kids) :
                    LET item == Get(res, <<"items">>).kids[i].value
                    IN  /\ Get(item, <<"designation">>) = JString(<<"unknown">>)
                        /\ Get(Get(item, <<"kv">>).kids[1].value, <<"path">>)
                             = JString(<<"error">>)

C18_Witness ==
  /\ ToolReturned
  /\ out[1].call = "get_product_kv_pairs_tool"
  /\ probe.designation = <<"6205">>
  /\ ~probe.dirs[1].isdir
  /\ BadRead(probe.dirs) = {2}
  /\ Len(Get(out[1].result, <<"items">>).kids) = 2

\* C19: a primary model call that raises (a call that returns no response) is
\* the request's last: the request fails at once with the exception, nothing
\* is stored, and from then on the request makes no model or verifier call
\* and has no final answer.
C19_NoRetry ==
  [][\A r \in Reqs :
       /\ (modelCalls'[r] = modelCalls[r] + 1 /\ pc'[r] \notin {"verifier", "tools", "end"}) =>
            /\ pc'[r] = "failed"
            /\ http'[r] = "exception"
            /\ reply'[r] = <<>>
            /\ store' = store
       /\ pc[r] = "failed" =>
            /\ pc'[r] = "failed"
            /\ modelCalls'[r] = modelCalls[r]
            /\ verifierCalls'[r] = verifierCalls[r]
            /\ toolRounds'[r] = toolRounds[r]
            /\ reply'[r] = <<>>]_vars

C19_Witness ==
  \E r \in Reqs :
    /\ pc[r] = "failed"
    /\ modelCalls[r] = 2
    /\ toolRounds[r] = 1
    /\ reply[r] = <<>>

\* C20: a request whose loop failed fatally is answered with an error
\* response; it never leaves chat as an unhandled exception.
C20_ErrorResponse ==
  \A r \in Reqs :
    /\ pc[r] = "failed" => http[r] = "error_response"
    /\ http[r] # "exception"

ContextExtracted == out # <<>> /\ probe.fn = "extract_context"

\* A call that yields a designation: a tool named after product or kv whose
\* arguments hold a non-empty designation; a call that carries a field.
YieldsDesignation(c) ==
  /\ c.name \in ProductOrKvNames
  /\ c.args.t = "object"
  /\ HasKey(c.args, <<"designation">>)
  /\ Truthy(Get(c.args, <<"designation">>))

DesignationOfCall(c) == Get(c.args, <<"designation">>)

CarriesField(c) ==
  c.args.t = "object" /\ HasKey(c.args, <<"field">>) /\ Truthy(Get(c.args, <<"field">>))

\* The designations one turn yields, in call order.
YieldOf(turn) ==
  LET calls == SelectSeq(turn, YieldsDesignation)
  IN  [k \in 1..Len(calls) |-> DesignationOfCall(calls[k])]

\* The turns that yield a designation, and the newest of them, where the scan stops.
Yielding(turns) == {i \in 1..Len(turns) : YieldOf(turns[i]) # <<>>}

StopTurn(turns) == CHOOSE i \in Yielding(turns) : \A j \in Yielding(turns) : j <= i

\* C21: the designations returned are those of the newest turn that yields
\* one, in call order and at most three, with none of an older turn; none
\* when no turn yields one; and exactly ["6205"] when the last tool turn is
\* the single call get_product_kv_pairs_tool(designation="6205").
C21_DesignationsOfNewestTurn ==
  ContextExtracted =>
    LET turns == probe.turns
    IN  /\ Yielding(turns) = {} => out[1].designations = <<>>
        /\ Yielding(turns) # {} =>
             LET ds == YieldOf(turns[StopTurn(turns)])
             IN  out[1].designations = [k \in 1..(IF Len(ds) < 3 THEN Len(ds) ELSE 3) |-> ds[k]]
        /\ turns # <<>> /\ turns[Len(turns)] = <<KvOf6205>>
             => out[1].designations = <<JString(<<"6205">>)>>

C21_Witness ==
  /\ ContextExtracted
  /\ probe.turns = <<<<KvOf6206Width>>, FourDesignations>>
  /\ out[1].designations =
       <<JString(<<"620", "1">>), JString(<<"620", "2">>), JString(<<"620", "3">>)>>

\* The turns the scan reads before it stops: from the newest turn back to the
\* one that yields a designation, or every turn when none does.
ScannedTurns(turns) ==
  IF Yielding(turns) = {} THEN 1..Len(turns) ELSE StopTurn(turns)..Len(turns)

FieldTurns(turns) ==
  {i \in ScannedTurns(turns) : \E k \in 1..Len(turns[i]) : CarriesField(turns[i][k])}

\* The field of the call latest in the history among the scanned calls that carry one.
LatestField(turns) ==
  LET i == CHOOSE a \in FieldTurns(turns) : \A b \in FieldTurns(turns) : b <= a
      ks == {k \in 1..Len(turns[i]) : CarriesField(turns[i][k])}
      k == CHOOSE a \in ks : \A b \in ks : b <= a
  IN  Get(turns[i][k].args, <<"field">>)

\* C22: when scanned calls carry a non-empty field, last_field is the field of
\* the one that is latest in the history, whether the calls are in the same
\* turn or in different turns.
C22_FieldOfLatestCall ==
  ContextExtracted /\ FieldTurns(probe.turns) # {}
    => out[1].last_field = LatestField(probe.turns)

\* C23: when no call of the history yields a designation, the result is the
\* empty designation list with no field, also when calls carry a field.
C23_NothingWithoutDesignation ==
  ContextExtracted /\ Yielding(probe.turns) = {}
    => out[1].designations = <<>> /\ out[1].last_field = JNull

KvReturned == out # <<>> /\ probe.fn = "kv"

\* The elements the tool reads from the directory, in file order, and the
\* items of its result.
KvProducts == [i \in 1..Len(probe.files) |-> ReadAll(probe.files)[i]]

KvItems == LET a == Get(out[1], <<"items">>) IN [i \in 1..Len(a.kids) |-> a.kids[i].value]

\* A product whose resolved identifier equals the filter, case-insensitive and trimmed.
MatchesFilter(prod) ==
  /\ prod.t = "object"
  /\ designation_of(prod) # <<>>
  /\ strip(Lower(designation_of(prod))) = strip(Lower(probe.designation))

\* C24: with a designation filter the items are those of the products whose
\* resolved identifier equals the filter, and of no other product, in
\* particular of none without a resolvable identifier.
C24_OnlyMatchingProducts ==
  KvReturned /\ probe.designation # <<>> =>
    LET matching == SelectSeq(KvProducts, MatchesFilter)
    IN  KvItems = [i \in 1..Len(matching) |-> KvItem(matching[i], probe.limit)]

\* The products that the filter of lines 188-190 lets through.
PassesFilter(prod) ==
  /\ prod.t = "object"
  /\ probe.designation # <<>> /\ designation_of(prod) # <<>> => MatchesFilter(prod)

KvPassed == SelectSeq(KvProducts, PassesFilter)

KvCap == IF probe.limit > CapFloor THEN probe.limit ELSE CapFloor

\* The pairs of an item as <<path, value>>.
PairsOf(item) ==
  LET a == Get(item, <<"kv">>)
  IN  [i \in 1..Len(a.kids) |->
         <<Get(a.kids[i].value, <<"path">>).v, Get(a.kids[i].value, <<"value">>)>>]

\* C25: each item holds exactly the first min(n, cap) pairs of its product's
\* flattening, n the number of pairs and cap = max(50, limit).
C25_FirstPairsUpToCap ==
  KvReturned =>
    /\ Len(KvItems) = Len(KvPassed)
    /\ \A i \in 1..Len(KvItems) :
         LET pairs == flatten_kv(KvPassed[i])
             n == Len(pairs)
             kept == IF n < KvCap THEN n ELSE KvCap
         IN  PairsOf(KvItems[i]) = [k \in 1..kept |-> pairs[k]]

C25_Witness ==
  /\ KvReturned
  /\ probe.limit = CapFloor + 1
  /\ probe.files = <<OkFile(BigDoc(CapFloor + 2)), OkFile(Doc6205)>>
  /\ Len(KvItems) = 2
  /\ Len(PairsOf(KvItems[1])) = CapFloor + 1
  /\ Len(PairsOf(KvItems[2])) = 2

\* C26: an item is marked truncated exactly when its product has more pairs
\* than the cap, so not when it has exactly as many; the flag of the document
\* is set exactly when some item is marked.
C26_TruncatedWhenExceeded ==
  KvReturned =>
    /\ Len(KvItems) = Len(KvPassed)
    /\ \A i \in 1..Len(KvItems) :
         Get(KvItems[i], <<"truncated">>) = JBool(Len(flatten_kv(KvPassed[i])) > KvCap)
    /\ Get(out[1], <<"truncated">>) =
         JBool(\E i \in 1..Len(KvItems) : Get(KvItems[i], <<"truncated">>) = JBool(TRUE))

Flattened == out # <<>> /\ probe.fn = "flatten"

\* C27: the pairs yielded for a document have pairwise different paths.
C27_PathsDistinct ==
  Flattened =>
    \A i, j \in 1..Len(out[1]) : i # j => out[1][i][1] # out[1][j][1]

\* The scalar and null leaves of a document with their paths, depth first.
RECURSIVE LeavesAt(_, _, _)
LeavesAt(path, node, i) ==
  IF ~IsContainer(node) THEN <<<<path, node>>>>
  ELSE IF i > Len(node.kids) THEN <<>>
  ELSE LeavesAt(KidPath(path, node, i), node.kids[i].value, 1) \o LeavesAt(path, node, i + 1)

Leaves(doc) == IF IsContainer(doc) THEN LeavesAt(<<>>, doc, 1) ELSE <<<<(<<"$">>), doc>>>>

Occurrences(e, seq) == Cardinality({i \in 1..Len(seq) : seq[i] = e})

\* Re-nesting the pairs: the value a path holds once every pair is written in turn.
Renested(pairs, path) ==
  LET at == {i \in 1..Len(pairs) : pairs[i][1] = path}
  IN  pairs[CHOOSE i \in at : \A j \in at : j <= i][2]

\* C28: the pairs yielded are exactly the leaves of the document, one pair
\* per scalar or null leaf with its path and value; written back by path they
\* give every leaf its value again; a bare scalar yields the one pair at "$".
C28_OnePairPerLeaf ==
  Flattened =>
    LET pairs == out[1]
        leaves == Leaves(probe.doc)
        paths == {pairs[i][1] : i \in 1..Len(pairs)}
    IN  /\ Len(pairs) = Len(leaves)
        /\ \A k \in 1..Len(leaves) : Occurrences(leaves[k], pairs) = Occurrences(leaves[k], leaves)
        /\ Cardinality(paths) = Len(leaves)
        /\ \A k \in 1..Len(leaves) : Renested(pairs, leaves[k][1]) = leaves[k][2]
        /\ ~IsContainer(probe.doc) => pairs = <<<<(<<"$">>), probe.doc>>>>

\* The request that takes the step, and whether a step changes what the store
\* holds for a session.
Acts(r) == pc'[r] # pc[r]

StoreChanged(s) == store'[s] # store[s] \/ (s \in present') # (s \in present)

\* C29: a chat request that found its session id absent from the store (line
\* 178) gives the session an empty list and runs on a history holding only its
\* own user message; a clear_session that succeeds leaves its session absent;
\* a clear_session on an absent session answers not-found and leaves every
\* stored session as it was.
C29_AbsentSessions ==
  [][\A r \in Reqs :
       /\ pc[r] = "idle" /\ pc'[r] \in {"create", "append"}
            => (pc'[r] = "create" <=> sid'[r] \notin present)
       /\ pc[r] = "create" /\ pc'[r] = "append"
            => sid[r] \in present' /\ store'[sid[r]] = <<>>
       /\ pc[r] = "invoke" /\ pc'[r] = "agent" /\ absent[r]
            => input'[r] = <<HumanMessage(user_text[r])>>
       /\ pc[r] = "idle" /\ pc'[r] = "delete"
            => sid'[r] \in present /\ store' = store /\ present' = present
       /\ pc[r] = "delete" /\ pc'[r] = "cleared"
            => http'[r] = "ok" /\ sid[r] \in present /\ sid[r] \notin present'
       /\ pc[r] = "idle" /\ pc'[r] = "cleared"
            => /\ sid'[r] \notin present /\ http'[r] = "not_found"
               /\ store' = store /\ present' = present]_vars

\* C30: a step of a chat or clear_session request changes neither the stored
\* history nor the presence of any session other than the request's own.
C30_OtherSessionsUntouched ==
  [][\A r \in Reqs : Acts(r) => \A s \in Sessions \ {sid'[r]} : ~StoreChanged(s)]_vars

C30_Witness ==
  \E r, q \in Reqs :
    /\ pc[r] = "replied" /\ sid[r] = "s1" /\ "s1" \in present /\ store["s1"] # <<>>
    /\ pc[q] = "cleared" /\ sid[q] = "s2" /\ http[q] = "ok" /\ "s2" \notin present

\* The leaves of a document as <<path, value, depth>>, in the order a walk of
\* the document meets them; the document itself has depth 0.
RECURSIVE DeepLeavesAt(_, _, _, _)
DeepLeavesAt(path, node, i, depth) ==
  IF ~IsContainer(node) THEN <<<<path, node, depth>>>>
  ELSE IF i > Len(node.kids) THEN <<>>
  ELSE DeepLeavesAt(KidPath(path, node, i), node.kids[i].value, 1, depth + 1)
         \o DeepLeavesAt(path, node, i + 1, depth)

DeepLeaves(doc) ==
  IF IsContainer(doc) THEN DeepLeavesAt(<<>>, doc, 1, 0) ELSE <<<<(<<"$">>), doc, 0>>>>

\* The leaves by depth, from depth d on: shallower leaves first, the leaves of
\* one depth in the order of the walk, so those of one container in member order.
RECURSIVE ByDepth(_, _)
ByDepth(leaves, d) ==
  IF leaves = <<>> THEN <<>>
  ELSE LET At(e) == e[3] = d
           Deeper(e) == e[3] # d
       IN  SelectSeq(leaves, At) \o ByDepth(SelectSeq(leaves, Deeper), d + 1)

\* C31: the pairs are yielded breadth first: a pair whose leaf lies at depth d
\* comes before every pair whose leaf lies deeper, and the pairs of one
\* container keep the order of its members.
C31_BreadthFirst ==
  Flattened =>
    LET expected == ByDepth(DeepLeaves(probe.doc), 0)
    IN  /\ Len(out[1]) = Len(expected)
        /\ \A k \in 1..Len(expected) :
             out[1][k] = <<expected[k][1], expected[k][2]>>
        /\ \A i, j \in 1..Len(expected) : i < j => expected[i][3] <= expected[j][3]

C31_Witness ==
  /\ Flattened
  /\ probe.doc = JObject(<<Member(<<"a">>, JObject(<<Member(<<"b">>, JNumber(<<"1">>))>>)),
                           Member(<<"b">>, JNull)>>)
  /\ out[1] = <<<<(<<"b">>), JNull>>, <<(<<"a", ".", "b">>), JNumber(<<"1">>)>>>>

RecentReturned == out # <<>> /\ probe.fn = "recent_tool_context"

\* The turns of the probe that call tools and whose tool output, joined and
\* trimmed, is not empty: their positions among the turns, oldest first.
HasOutput(turn) ==
  /\ turn.names # <<>>
  /\ \E k \in 1..Len(turn.outs) : \E c \in 1..Len(turn.outs[k]) : turn.outs[k][c] \notin Space

EvidenceTurns(turns) == {i \in 1..Len(turns) : HasOutput(turns[i])}

\* The n-th of a set of numbers in rising order.
RECURSIVE NthOf(_, _)
NthOf(set, n) ==
  LET least == CHOOSE a \in set : \A b \in set : a <= b
  IN  IF n = 1 THEN least ELSE NthOf(set \ {least}, n - 1)

\* C32: the blocks returned are at most max_pairs; they belong to the most
\* recent tool-calling turns that have tool output, older such turns being
\* dropped; they come oldest first, each labelled with the tool names of its turn.
C32_RecentBlocks ==
  RecentReturned =>
    LET ev == EvidenceTurns(probe.turns)
        n == Cardinality(ev)
        kept == IF n < probe.max_pairs THEN n ELSE probe.max_pairs
    IN  /\ Len(out[1]) = kept
        /\ Len(out[1]) <= probe.max_pairs
        /\ \A k \in 1..kept :
             LET turn == probe.turns[NthOf(ev, n - kept + k)]
             IN  /\ out[1][k].label = JoinComma(turn.names)
                 /\ out[1][k].text # <<>>

C32_Witness ==
  /\ RecentReturned
  /\ probe.max_pairs = DefaultMaxPairs
  /\ Cardinality(EvidenceTurns(probe.turns)) = 4
  /\ probe.turns[1].names = <<"time_tool">>
  /\ probe.turns[4].names = <<"get_all_products_data_tool">>
  /\ Len(out[1]) = 3
  /\ out[1][1].label = <<"get_product_kv_pairs_tool", ", ", "time_tool">>
  /\ out[1][3].label = <<"get_all_products_data_tool">>

\* C33: a chat request whose text matches the malicious-input list is refused
\* and never enters the loop; the refusal leaves the session store as it was,
\* creates no session, appends no message, and the request calls neither the
\* model nor a tool, then or later.
C33_RefusedWithoutLoop ==
  [][\A r \in Reqs :
       /\ pc[r] = "idle" /\ pc'[r] \in {"create", "append"} =>
            ~check_malicious_input(user_text'[r]).malicious
       /\ pc[r] # "refused" /\ pc'[r] = "refused" =>
            /\ pc[r] = "idle"
            /\ check_malicious_input(user_text'[r]).malicious
            /\ store' = store /\ present' = present
            /\ reply'[r] = RefusalMessage
       /\ pc[r] = "refused" =>
            /\ pc'[r] = "refused"
            /\ modelCalls'[r] = 0 /\ verifierCalls'[r] = 0 /\ toolRounds'[r] = 0
            /\ msgs'[r] = <<>>]_vars

C33_Witness ==
  \E r, q \in Reqs :
    /\ pc[r] = "refused" /\ reply[r] = RefusalMessage /\ modelCalls[r] = 0
    /\ pc[q] = "refused" /\ q # r
    /\ present = {}

\* No other request has worked on the session of request r.
OnlyRequestOn(r) == \A q \in Reqs \ {r} : pc[q] = "idle" \/ sid[q] # sid[r]

\* C34: when the primary model call of a request raises, the stored history
\* of its session is the history before the request followed by the new user
\* message: no assistant or tool message of the failed loop is stored and the
\* user message stays.
C34_StoreAfterModelFailure ==
  [][\A r \in Reqs :
       /\ pc[r] = "create" /\ pc'[r] = "append" => store'[sid[r]] = <<>>
       /\ pc[r] = "append" /\ pc'[r] = "invoke" =>
            store'[sid[r]] = store[sid[r]] \o <<HumanMessage(user_text[r])>>
       /\ pc[r] = "invoke" /\ pc'[r] = "agent" => input'[r] = store[sid[r]]
       /\ pc[r] \in InLoop /\ pc'[r] \in InLoop \cup {"end"} => input'[r] = input[r]
       /\ pc[r] = "agent" /\ pc'[r] = "failed" =>
            /\ store' = store /\ present' = present
            /\ OnlyRequestOn(r) =>
                 /\ sid[r] \in present'
                 /\ store'[sid[r]] = input[r]
                 /\ store'[sid[r]] = <<HumanMessage(user_text[r])>>]_vars

C34_Witness ==
  \E r \in Reqs :
    /\ pc[r] = "failed" /\ http[r] = "exception"
    /\ toolRounds[r] >= 1 /\ modelCalls[r] >= 2
    /\ OnlyRequestOn(r)
    /\ store[sid[r]] = <<HumanMessage(<<"width of 6205?">>)>>

\* C35: every tool round, whether the response carried tool_calls or a legacy
\* function_call, appends at least one tool-result message before the model
\* is called again, so the model is next called on a history that ends with
\* a tool result.
C35_ToolRoundAppendsResult ==
  [][\A r \in Reqs :
       pc[r] = "tools" /\ pc'[r] = "agent" =>
         /\ Len(msgs'[r]) > Len(msgs[r])
         /\ msgs'[r][Len(msgs'[r])].role = "tool"]_vars

\* C36: a request calls the verifier at most once; the call is made on the
\* final, content-only response of the loop and on no response that asks for
\* tools; after it the request executes no tool and calls the model no more.
C36_VerifierOnceAtTheEnd ==
  [][\A r \in Reqs :
       /\ verifierCalls'[r] <= 1
       /\ verifierCalls'[r] > verifierCalls[r] =>
            /\ IsFinal(lastResp'[r])
            /\ ~needs_tool(msgs'[r])
            /\ pc'[r] = "end"
       /\ verifierCalls[r] >= 1 =>
            /\ pc'[r] \notin {"agent", "tools"}
            /\ toolRounds'[r] = toolRounds[r]
            /\ modelCalls'[r] = modelCalls[r]
            /\ verifierCalls'[r] = verifierCalls[r]]_vars

C36_Witness ==
  \E r \in Reqs :
    /\ pc[r] = "replied"
    /\ toolRounds[r] = 2 /\ modelCalls[r] = 3
    /\ verifierCalls[r] = 1

ConfidenceExtracted == out # <<>> /\ probe.fn = "confidence"

\* C37: for every final answer the extractor returns, without failing on the
\* text its Confidence pattern matched, a confidence that is one of High,
\* Medium, Low and Unknown.
C37_ConfidenceIsLabel ==
  ConfidenceExtracted =>
    /\ ~out[1].raised
    /\ out[1].confidence \in {<<"High">>, <<"Medium">>, <<"Low">>, <<"Unknown">>}
====
